---- MODULE Spec2Model ----
(***************************************************************************)
(* Drift detection and merge resolution of the document manager            *)
(* (class DriftDetection): string similarity, section comparison,          *)
(* metadata comparison, confidence, recommendation and merge preview.      *)
(*                                                                         *)
(* Representation.                                                         *)
(*   - A JavaScript string is a sequence of one-character strings.         *)
(*   - `undefined' (an absent property) is a missing key of a function:    *)
(*     an object is a function whose DOMAIN is the set of its own keys.    *)
(*   - A similarity (a quotient of two small integers) is the reduced      *)
(*     fraction [num, den]; thresholds are compared by cross               *)
(*     multiplication.  i/u is correctly rounded by IEEE division and the  *)
(*     thresholds 0.5, 0.8, 0.95 are at least 1/200 away from every        *)
(*     quotient of the model other than an exact hit, so every float       *)
(*     comparison agrees with the rational one.                            *)
(*   - A confidence is kept in hundredths (0.8 is 80).  The double         *)
(*     computed by calculateConfidence differs from the exact value by a   *)
(*     few ulps at most; for all counts up to 40 changes the comparisons   *)
(*     the code makes (confidence < 0.5, the clamp) and the order of two   *)
(*     confidences agree with the exact arithmetic.                        *)
(***************************************************************************)
EXTENDS Integers, Sequences, FiniteSets, TLC

(***************************************************************************)
(* Strings                                                                 *)
(***************************************************************************)

\* String.prototype.toLowerCase on one character (ASCII letters).
LowerOf ==
  [A |-> "a", B |-> "b", C |-> "c", D |-> "d", E |-> "e", F |-> "f", G |-> "g",
   H |-> "h", I |-> "i", J |-> "j", K |-> "k", L |-> "l", M |-> "m", N |-> "n",
   O |-> "o", P |-> "p", Q |-> "q", R |-> "r", S |-> "s", T |-> "t", U |-> "u",
   V |-> "v", W |-> "w", X |-> "x", Y |-> "y", Z |-> "z"]

toLowerCase(s) ==
  [i \in 1..Len(s) |-> IF s[i] \in DOMAIN LowerOf THEN LowerOf[s[i]] ELSE s[i]]

\* The characters the regular expression class \s matches.
IsWhitespace(c) == c \in {" ", "\t", "\n"}

\* s.split(/\s+/): the pieces between maximal whitespace runs.  A leading or
\* trailing run leaves an empty piece, and the empty string splits to [""].
RECURSIVE SplitFrom(_, _, _, _)
SplitFrom(s, i, done, cur) ==
  IF i > Len(s) THEN Append(done, cur)
  ELSE IF IsWhitespace(s[i])
       THEN IF i > 1 /\ IsWhitespace(s[i - 1])
            THEN SplitFrom(s, i + 1, done, cur)
            ELSE SplitFrom(s, i + 1, Append(done, cur), <<>>)
       ELSE SplitFrom(s, i + 1, done, Append(cur, s[i]))

split(s) == SplitFrom(s, 1, <<>>, <<>>)

\* new Set(array)
SetOf(seq) == {seq[i] : i \in DOMAIN seq}

RECURSIVE Gcd(_, _)
Gcd(a, b) == IF b = 0 THEN a ELSE Gcd(b, a % b)

\* The number n / d as a reduced fraction (d > 0).
Frac(n, d) == [num |-> n \div Gcd(n, d), den |-> d \div Gcd(n, d)]

\* x < a / b, for a fraction x and integers a, b > 0.
FracLess(x, a, b) == x.num * b < a * x.den

\* x > a / b
FracGreater(x, a, b) == x.num * b > a * x.den

\* Jaccard similarity of the token sets (a mutation: the share of the first
\* string's tokens found in the second).
calculateStringSimilarity_overlap(str1, str2) ==
  LET set1 == SetOf(split(toLowerCase(str1)))
      set2 == SetOf(split(toLowerCase(str2)))
  IN Frac(Cardinality(set1 \cap set2), Cardinality(set1))

\* A mutation: the second string is not case-folded.
calculateStringSimilarity_caseSecond(str1, str2) ==
  LET set1 == SetOf(split(toLowerCase(str1)))
      set2 == SetOf(split(str2))
      intersection == {x \in set1 : x \in set2}
      union == set1 \cup set2
  IN IF Cardinality(union) = 0
       THEN Frac(1, 1)
       ELSE Frac(Cardinality(intersection), Cardinality(union))

\* A mutation: punctuation is replaced by spaces before the split, as
\* QAService.extractSearchTerms does.
calculateStringSimilarity_stripPunctuation(str1, str2) ==
  LET Strip(s) == [i \in 1..Len(s) |-> IF s[i] \in {"!", "?", ".", ","} THEN " " ELSE s[i]]
      set1 == SetOf(split(Strip(toLowerCase(str1))))
      set2 == SetOf(split(Strip(toLowerCase(str2))))
      intersection == {x \in set1 : x \in set2}
      union == set1 \cup set2
  IN IF Cardinality(union) = 0
       THEN Frac(1, 1)
       ELSE Frac(Cardinality(intersection), Cardinality(union))

calculateStringSimilarity(str1, str2) ==
  LET set1 == SetOf(split(toLowerCase(str1)))
      set2 == SetOf(split(toLowerCase(str2)))
      intersection == {x \in set1 : x \in set2}
      union == set1 \cup set2
  IN IF Cardinality(union) = 0
       THEN Frac(1, 1)
       ELSE Frac(Cardinality(intersection), Cardinality(union))

\* HIGH_SIGNIFICANCE_THRESHOLD = 0.5 and MEDIUM_SIGNIFICANCE_THRESHOLD = 0.8,
\* in hundredths.
HIGH_SIGNIFICANCE_THRESHOLD == 50
MEDIUM_SIGNIFICANCE_THRESHOLD == 80

\* A mutation of determineSignificance: the thresholds are inclusive.
determineSignificance_inclusive(similarity) ==
  IF ~FracGreater(similarity, HIGH_SIGNIFICANCE_THRESHOLD, 100) THEN "high"
  ELSE IF ~FracGreater(similarity, MEDIUM_SIGNIFICANCE_THRESHOLD, 100) THEN "medium"
  ELSE "low"

determineSignificance(similarity) ==
  IF FracLess(similarity, HIGH_SIGNIFICANCE_THRESHOLD, 100) THEN "high"
  ELSE IF FracLess(similarity, MEDIUM_SIGNIFICANCE_THRESHOLD, 100) THEN "medium"
  ELSE "low"

(***************************************************************************)
(* Confidence and recommendation                                           *)
(***************************************************************************)

Min(a, b) == IF a < b THEN a ELSE b
Max(a, b) == IF a > b THEN a ELSE b

\* changes.filter(c => c.significance === sig).length
CountSignificance(changes, sig) ==
  Cardinality({i \in DOMAIN changes : changes[i].significance = sig})

\* A mutation of calculateConfidence: medium changes weigh as much as high ones.
calculateConfidence_flat(changes) ==
  IF Len(changes) = 0 THEN 100
  ELSE LET highImpactChanges == CountSignificance(changes, "high")
           mediumImpactChanges == CountSignificance(changes, "medium")
           confidence == 80 - Min(40, Len(changes) * 5)
                            - ((highImpactChanges * 15) + (mediumImpactChanges * 15))
       IN Max(10, Min(100, confidence))

\* A mutation of calculateConfidence: the count term is added, not subtracted.
calculateConfidence_rising(changes) ==
  IF Len(changes) = 0 THEN 100
  ELSE LET highImpactChanges == CountSignificance(changes, "high")
           mediumImpactChanges == CountSignificance(changes, "medium")
           confidence == 80 + Min(40, Len(changes) * 5)
                            - ((highImpactChanges * 15) + (mediumImpactChanges * 8))
       IN Max(10, Min(100, confidence))

\* In hundredths: base 0.8, 0.05 per change up to 0.4, 0.15 per high and 0.08
\* per medium change, clamped into [0.1, 1.0].
calculateConfidence(changes) ==
  IF Len(changes) = 0 THEN 100
  ELSE LET highImpactChanges == CountSignificance(changes, "high")
           mediumImpactChanges == CountSignificance(changes, "medium")
           confidence == 80 - Min(40, Len(changes) * 5)
                            - ((highImpactChanges * 15) + (mediumImpactChanges * 8))
       IN Max(10, Min(100, confidence))

\* A mutation of generateRecommendation: the update-existing test comes first.
generateRecommendation_updateFirst(changes, confidence) ==
  IF Len(changes) = 0 THEN "create-new"
  ELSE LET highImpactChanges == CountSignificance(changes, "high")
           totalChanges == Len(changes)
       IN IF totalChanges <= 3 /\ highImpactChanges <= 1 THEN "update-existing"
          ELSE IF highImpactChanges > 2 \/ confidence < 50 THEN "manual-review"
          ELSE IF totalChanges > 5 THEN "create-new"
          ELSE "merge-required"

\* A mutation of generateRecommendation: the confidence is not looked at.
generateRecommendation_noConfidence(changes, confidence) ==
  IF Len(changes) = 0 THEN "create-new"
  ELSE LET highImpactChanges == CountSignificance(changes, "high")
           totalChanges == Len(changes)
       IN IF highImpactChanges > 2 THEN "manual-review"
          ELSE IF totalChanges <= 3 /\ highImpactChanges <= 1 THEN "update-existing"
          ELSE IF totalChanges > 5 THEN "create-new"
          ELSE "merge-required"

generateRecommendation(changes, confidence) ==
  IF Len(changes) = 0 THEN "create-new"
  ELSE LET highImpactChanges == CountSignificance(changes, "high")
           mediumImpactChanges == CountSignificance(changes, "medium")
           totalChanges == Len(changes)
       IN IF highImpactChanges > 2 \/ confidence < 50 THEN "manual-review"
          ELSE IF totalChanges <= 3 /\ highImpactChanges <= 1 THEN "update-existing"
          ELSE IF totalChanges > 5 THEN "create-new"
          ELSE "merge-required"

(***************************************************************************)
(* Objects and Maps                                                        *)
(***************************************************************************)

Has(obj, key) == key \in DOMAIN obj

\* A Map is the sequence of its entries [key, value] in insertion order.
MapHas(map, key) == \E i \in DOMAIN map : map[i].key = key

MapGet(map, key) == map[CHOOSE i \in DOMAIN map : map[i].key = key].value

\* Map.prototype.set: a present key keeps its place and takes the new value.
MapSet(map, key, value) ==
  IF MapHas(map, key)
    THEN [i \in DOMAIN map |->
            IF map[i].key = key THEN [key |-> key, value |-> value] ELSE map[i]]
    ELSE Append(map, [key |-> key, value |-> value])

\* new Map(sections.map(s => [s.title, s]))
RECURSIVE MapFrom(_, _)
MapFrom(sections, map) ==
  IF sections = <<>> THEN map
  ELSE MapFrom(Tail(sections), MapSet(map, Head(sections).title, Head(sections)))

SectionMap(sections) == MapFrom(sections, <<>>)

(***************************************************************************)
(* Property names and path prefixes, as strings                            *)
(***************************************************************************)

K_title == <<"t", "i", "t", "l", "e">>
K_description == <<"d", "e", "s", "c", "r", "i", "p", "t", "i", "o", "n">>
K_purpose == <<"p", "u", "r", "p", "o", "s", "e">>
K_serviceName == <<"s", "e", "r", "v", "i", "c", "e", "N", "a", "m", "e">>
K_version == <<"v", "e", "r", "s", "i", "o", "n">>
K_author == <<"a", "u", "t", "h", "o", "r">>
K_dependencies == <<"d", "e", "p", "e", "n", "d", "e", "n", "c", "i", "e", "s">>
K_tags == <<"t", "a", "g", "s">>
K_category == <<"c", "a", "t", "e", "g", "o", "r", "y">>
K_businessUnit == <<"b", "u", "s", "i", "n", "e", "s", "s", "U", "n", "i", "t">>
K_enrichmentTimestamp == <<"e", "n", "r", "i", "c", "h", "m", "e", "n", "t", "T", "i", "m", "e", "s", "t", "a", "m", "p">>
K_llmModel == <<"l", "l", "m", "M", "o", "d", "e", "l">>
K_confidence == <<"c", "o", "n", "f", "i", "d", "e", "n", "c", "e">>
K_reviewStatus == <<"r", "e", "v", "i", "e", "w", "S", "t", "a", "t", "u", "s">>
K_reviewedBy == <<"r", "e", "v", "i", "e", "w", "e", "d", "B", "y">>
P_sections == <<"s", "e", "c", "t", "i", "o", "n", "s", ".">>
P_metadata == <<"m", "e", "t", "a", "d", "a", "t", "a", ".">>

(***************************************************************************)
(* Metadata values: strings, arrays of strings, numbers (in hundredths,    *)
(* 0 to 1) and undefined                                                   *)
(***************************************************************************)

Undefined == [kind |-> "undefined"]
Str(s) == [kind |-> "string", str |-> s]
Arr(items) == [kind |-> "array", items |-> items]
Num(n) == [kind |-> "number", num |-> n]

\* obj[field], undefined when the object has no such property
Lookup(obj, field) == IF Has(obj, field) THEN obj[field] ELSE Undefined

RECURSIVE Join(_, _)
\* array.join(sep) of an array of strings
Join(items, sep) ==
  IF items = <<>> THEN <<>>
  ELSE IF Len(items) = 1 THEN Head(items)
  ELSE Head(items) \o sep \o Join(Tail(items), sep)

Digit(d) == <<"0", "1", "2", "3", "4", "5", "6", "7", "8", "9">>[d + 1]

\* String(n) of a number n / 100 in [0, 1]
NumberToString(n) ==
  IF n = 100 THEN <<"1">>
  ELSE IF n = 0 THEN <<"0">>
  ELSE IF n % 10 = 0 THEN <<"0", ".", Digit(n \div 10)>>
  ELSE <<"0", ".", Digit(n \div 10), Digit(n % 10)>>

RECURSIVE Escape(_)
\* the JSON escapes of the quote and the backslash
Escape(s) ==
  IF s = <<>> THEN <<>>
  ELSE IF Head(s) \in {"\"", "\\"} THEN <<"\\", Head(s)>> \o Escape(Tail(s))
  ELSE <<Head(s)>> \o Escape(Tail(s))

Quote(s) == <<"\"">> \o Escape(s) \o <<"\"">>

\* JSON.stringify(value): a text, or undefined for undefined
JSONstringify(value) ==
  CASE value.kind = "undefined" -> [defined |-> FALSE]
    [] value.kind = "string" -> [defined |-> TRUE, text |-> Quote(value.str)]
    [] value.kind = "number" -> [defined |-> TRUE, text |-> NumberToString(value.num)]
    [] value.kind = "array" ->
         [defined |-> TRUE,
          text |-> <<"[">>
                   \o Join([i \in DOMAIN value.items |-> Quote(value.items[i])], <<",">>)
                   \o <<"]">>]

formatMetadataValue(value) ==
  CASE value.kind = "array" -> Join(value.items, <<",", " ">>)
    [] value.kind = "string" -> value.str
    [] value.kind = "number" -> IF value.num = 0 THEN <<>> ELSE NumberToString(value.num)
    [] value.kind = "undefined" -> <<>>

highImpactFields == <<K_serviceName, K_version>>
mediumImpactFields == <<K_dependencies, K_category, K_businessUnit>>

\* array.includes(x)
Includes(array, x) == \E i \in DOMAIN array : array[i] = x

determineMetadataSignificance(field, oldValue, newValue) ==
  IF Includes(highImpactFields, field) THEN "high"
  ELSE IF Includes(mediumImpactFields, field) THEN "medium"
  ELSE "low"

DefaultFieldsToCheck ==
  <<K_serviceName, K_version, K_dependencies, K_tags, K_category, K_businessUnit>>

RECURSIVE MetadataChangesFrom(_, _, _)
\* the loop over fieldsToCheck
MetadataChangesFrom(existingMetadata, newMetadata, fields) ==
  IF fields = <<>> THEN <<>>
  ELSE LET field == Head(fields)
           oldValue == Lookup(existingMetadata, field)
           newValue == Lookup(newMetadata, field)
           rest == MetadataChangesFrom(existingMetadata, newMetadata, Tail(fields))
       IN IF JSONstringify(oldValue) # JSONstringify(newValue)
            THEN <<[section |-> P_metadata \o field,
                    type |-> "modification",
                    oldValue |-> formatMetadataValue(oldValue),
                    newValue |-> formatMetadataValue(newValue),
                    significance |->
                      determineMetadataSignificance(field, oldValue, newValue)]>>
                 \o rest
            ELSE rest

\* A mutation of analyzeMetadataChanges: focusAreas is not read.
analyzeMetadataChanges_defaultOnly(existingMetadata, newMetadata, options) ==
  MetadataChangesFrom(existingMetadata, newMetadata, DefaultFieldsToCheck)

\* options is an object that has focusAreas or not
analyzeMetadataChanges(existingMetadata, newMetadata, options) ==
  MetadataChangesFrom(existingMetadata, newMetadata,
    IF Has(options, "focusAreas") THEN options.focusAreas ELSE DefaultFieldsToCheck)

(***************************************************************************)
(* Drift analysis                                                          *)
(***************************************************************************)

\* SIMILARITY_THRESHOLD = 0.7, in hundredths
SIMILARITY_THRESHOLD == 70

\* A mutation of analyzeTextChanges: equal texts are not short-circuited.
analyzeTextChanges_noShortCircuit(section, oldText, newText, ignoreMinor) ==
  LET similarity == calculateStringSimilarity(oldText, newText)
  IN IF ignoreMinor /\ FracGreater(similarity, 95, 100) THEN <<>>
     ELSE <<[section |-> section,
             type |-> "modification",
             oldValue |-> oldText,
             newValue |-> newText,
             significance |-> determineSignificance(similarity)]>>

\* A mutation of analyzeTextChanges: the skip applies from similarity 0.5.
analyzeTextChanges_skipMore(section, oldText, newText, ignoreMinor) ==
  IF oldText = newText THEN <<>>
  ELSE LET similarity == calculateStringSimilarity(oldText, newText)
       IN IF ignoreMinor /\ FracGreater(similarity, 50, 100) THEN <<>>
          ELSE <<[section |-> section,
                  type |-> "modification",
                  oldValue |-> oldText,
                  newValue |-> newText,
                  significance |-> determineSignificance(similarity)]>>

analyzeTextChanges(section, oldText, newText, ignoreMinor) ==
  IF oldText = newText THEN <<>>
  ELSE LET similarity == calculateStringSimilarity(oldText, newText)
       IN IF ignoreMinor /\ FracGreater(similarity, 95, 100) THEN <<>>
          ELSE <<[section |-> section,
                  type |-> "modification",
                  oldValue |-> oldText,
                  newValue |-> newText,
                  significance |-> determineSignificance(similarity)]>>

\* The three loops of analyzeSectionChanges over the two Maps.
DeletedSectionChanges(existingMap, newMap) ==
  LET gone == SelectSeq(existingMap, LAMBDA e : ~MapHas(newMap, e.key))
  IN [i \in DOMAIN gone |->
        [section |-> P_sections \o gone[i].key,
         type |-> "deletion",
         oldValue |-> gone[i].value.content,
         significance |-> "medium"]]

\* A mutation of the loop over the new sections: an addition carries an empty
\* oldValue.
NewSectionChanges_withOld(existingMap, newMap) ==
  LET fresh == SelectSeq(newMap, LAMBDA e : ~MapHas(existingMap, e.key))
  IN [i \in DOMAIN fresh |->
        [section |-> P_sections \o fresh[i].key,
         type |-> "addition",
         oldValue |-> <<>>,
         newValue |-> fresh[i].value.content,
         significance |-> "medium"]]

NewSectionChanges(existingMap, newMap) ==
  LET fresh == SelectSeq(newMap, LAMBDA e : ~MapHas(existingMap, e.key))
  IN [i \in DOMAIN fresh |->
        [section |-> P_sections \o fresh[i].key,
         type |-> "addition",
         newValue |-> fresh[i].value.content,
         significance |-> "medium"]]

ModifiedSectionChanges(existingMap, newMap, ignoreMinor) ==
  LET Differs(e) ==
        /\ MapHas(existingMap, e.key)
        /\ MapGet(existingMap, e.key).content # e.value.content
        /\ ~(ignoreMinor
             /\ FracGreater(calculateStringSimilarity(
                              MapGet(existingMap, e.key).content, e.value.content),
                            95, 100))
      changed == SelectSeq(newMap, Differs)
  IN [i \in DOMAIN changed |->
        LET existingSection == MapGet(existingMap, changed[i].key)
            newSection == changed[i].value
        IN [section |-> P_sections \o changed[i].key,
            type |-> "modification",
            oldValue |-> existingSection.content,
            newValue |-> newSection.content,
            significance |->
              determineSignificance(calculateStringSimilarity(
                existingSection.content, newSection.content))]]

\* A mutation of analyzeSectionChanges: modifications are pushed before the
\* deletions and additions.
analyzeSectionChanges_modifiedFirst(existingSections, newSections, ignoreMinor) ==
  LET existingMap == SectionMap(existingSections)
      newMap == SectionMap(newSections)
  IN ModifiedSectionChanges(existingMap, newMap, ignoreMinor)
     \o DeletedSectionChanges(existingMap, newMap)
     \o NewSectionChanges(existingMap, newMap)

\* A mutation of analyzeSectionChanges: the loop over the new sections runs
\* before the loop over the deleted ones.
analyzeSectionChanges_additionsFirst(existingSections, newSections, ignoreMinor) ==
  LET existingMap == SectionMap(existingSections)
      newMap == SectionMap(newSections)
  IN NewSectionChanges(existingMap, newMap)
     \o DeletedSectionChanges(existingMap, newMap)
     \o ModifiedSectionChanges(existingMap, newMap, ignoreMinor)

analyzeSectionChanges(existingSections, newSections, ignoreMinor) ==
  LET existingMap == SectionMap(existingSections)
      newMap == SectionMap(newSections)
  IN DeletedSectionChanges(existingMap, newMap)
     \o NewSectionChanges(existingMap, newMap)
     \o ModifiedSectionChanges(existingMap, newMap, ignoreMinor)

\* A mutation of the title comparison: the title goes through the shared
\* text rule.
TitleChanges_shared(existing, newDoc) ==
  analyzeTextChanges(K_title, existing.enrichedContent.title,
                     newDoc.enrichedContent.title, FALSE)

\* The title comparison of analyzeDocuments.
TitleChanges(existing, newDoc) ==
  IF existing.enrichedContent.title # newDoc.enrichedContent.title
    THEN LET titleSimilarity ==
               calculateStringSimilarity(existing.enrichedContent.title,
                                         newDoc.enrichedContent.title)
         IN <<[section |-> K_title,
               type |-> "modification",
               oldValue |-> existing.enrichedContent.title,
               newValue |-> newDoc.enrichedContent.title,
               significance |->
                 IF FracLess(titleSimilarity, HIGH_SIGNIFICANCE_THRESHOLD, 100)
                   THEN "high" ELSE "medium"]>>
    ELSE <<>>

\* A mutation of analyzeDocuments: the confidence is that of the unfiltered
\* list.
analyzeDocuments_unfilteredConfidence(existing, newDoc, options) ==
  LET threshold ==
        IF Has(options, "threshold") /\ options.threshold # 0
          THEN options.threshold ELSE SIMILARITY_THRESHOLD
      ignoreMinorChanges ==
        Has(options, "ignoreMinorChanges") /\ options.ignoreMinorChanges
      descriptionChanges ==
        analyzeTextChanges(K_description,
                           existing.enrichedContent.description,
                           newDoc.enrichedContent.description,
                           ignoreMinorChanges)
      purposeChanges ==
        IF existing.enrichedContent.purpose # newDoc.enrichedContent.purpose
          THEN analyzeTextChanges(K_purpose,
                                  existing.enrichedContent.purpose,
                                  newDoc.enrichedContent.purpose,
                                  ignoreMinorChanges)
          ELSE <<>>
      sectionChanges ==
        analyzeSectionChanges(existing.enrichedContent.sections,
                              newDoc.enrichedContent.sections,
                              ignoreMinorChanges)
      metadataChanges ==
        analyzeMetadataChanges(existing.metadata, newDoc.metadata, options)
      changes ==
        TitleChanges(existing, newDoc) \o descriptionChanges \o purposeChanges
        \o sectionChanges \o metadataChanges
      filteredChanges ==
        IF ignoreMinorChanges
          THEN SelectSeq(changes, LAMBDA change : change.significance # "low")
          ELSE changes
      confidence == calculateConfidence(changes)
  IN [hasChanges |-> Len(filteredChanges) > 0,
      confidence |-> confidence,
      changes |-> filteredChanges,
      recommendation |-> generateRecommendation(filteredChanges, confidence)]

\* A mutation of analyzeDocuments: a threshold above the default also filters
\* the low changes.
analyzeDocuments_thresholdFilters(existing, newDoc, options) ==
  LET threshold ==
        IF Has(options, "threshold") /\ options.threshold # 0
          THEN options.threshold ELSE SIMILARITY_THRESHOLD
      ignoreMinorChanges ==
        Has(options, "ignoreMinorChanges") /\ options.ignoreMinorChanges
      descriptionChanges ==
        analyzeTextChanges(K_description,
                           existing.enrichedContent.description,
                           newDoc.enrichedContent.description,
                           ignoreMinorChanges)
      purposeChanges ==
        IF existing.enrichedContent.purpose # newDoc.enrichedContent.purpose
          THEN analyzeTextChanges(K_purpose,
                                  existing.enrichedContent.purpose,
                                  newDoc.enrichedContent.purpose,
                                  ignoreMinorChanges)
          ELSE <<>>
      sectionChanges ==
        analyzeSectionChanges(existing.enrichedContent.sections,
                              newDoc.enrichedContent.sections,
                              ignoreMinorChanges)
      metadataChanges ==
        analyzeMetadataChanges(existing.metadata, newDoc.metadata, options)
      changes ==
        TitleChanges(existing, newDoc) \o descriptionChanges \o purposeChanges
        \o sectionChanges \o metadataChanges
      filteredChanges ==
        IF ignoreMinorChanges \/ threshold > SIMILARITY_THRESHOLD
          THEN SelectSeq(changes, LAMBDA change : change.significance # "low")
          ELSE changes
      confidence == calculateConfidence(filteredChanges)
  IN [hasChanges |-> Len(filteredChanges) > 0,
      confidence |-> confidence,
      changes |-> filteredChanges,
      recommendation |-> generateRecommendation(filteredChanges, confidence)]

\* options is an object with the optional properties threshold,
\* ignoreMinorChanges and focusAreas.
analyzeDocuments(existing, newDoc, options) ==
  LET threshold ==
        IF Has(options, "threshold") /\ options.threshold # 0
          THEN options.threshold ELSE SIMILARITY_THRESHOLD
      ignoreMinorChanges ==
        Has(options, "ignoreMinorChanges") /\ options.ignoreMinorChanges
      descriptionChanges ==
        analyzeTextChanges(K_description,
                           existing.enrichedContent.description,
                           newDoc.enrichedContent.description,
                           ignoreMinorChanges)
      purposeChanges ==
        IF existing.enrichedContent.purpose # newDoc.enrichedContent.purpose
          THEN analyzeTextChanges(K_purpose,
                                  existing.enrichedContent.purpose,
                                  newDoc.enrichedContent.purpose,
                                  ignoreMinorChanges)
          ELSE <<>>
      sectionChanges ==
        analyzeSectionChanges(existing.enrichedContent.sections,
                              newDoc.enrichedContent.sections,
                              ignoreMinorChanges)
      metadataChanges ==
        analyzeMetadataChanges(existing.metadata, newDoc.metadata, options)
      changes ==
        TitleChanges(existing, newDoc) \o descriptionChanges \o purposeChanges
        \o sectionChanges \o metadataChanges
      filteredChanges ==
        IF ignoreMinorChanges
          THEN SelectSeq(changes, LAMBDA change : change.significance # "low")
          ELSE changes
      confidence == calculateConfidence(filteredChanges)
  IN [hasChanges |-> Len(filteredChanges) > 0,
      confidence |-> confidence,
      changes |-> filteredChanges,
      recommendation |-> generateRecommendation(filteredChanges, confidence)]

(***************************************************************************)
(* Section comparison and merge                                            *)
(***************************************************************************)

\* A mutation of compareSections: the arrays are scanned, not the Maps, so a
\* repeated title is reported once per occurrence.
compareSections_noMaps(existingSections, newSections) ==
  LET HasTitle(sections, t) == \E i \in DOMAIN sections : sections[i].title = t
      Last(sections, t) ==
        sections[CHOOSE i \in DOMAIN sections :
                   /\ sections[i].title = t
                   /\ \A j \in DOMAIN sections : sections[j].title = t => j <= i]
      both == SelectSeq(newSections, LAMBDA s : HasTitle(existingSections, s.title))
      same == SelectSeq(both, LAMBDA s : Last(existingSections, s.title).content = s.content)
      differ == SelectSeq(both, LAMBDA s : Last(existingSections, s.title).content # s.content)
  IN [added |-> SelectSeq(newSections, LAMBDA s : ~HasTitle(existingSections, s.title)),
      removed |-> SelectSeq(existingSections, LAMBDA s : ~HasTitle(newSections, s.title)),
      modified |->
        [i \in DOMAIN differ |->
           [title |-> differ[i].title,
            existing |-> Last(existingSections, differ[i].title),
            new |-> differ[i],
            similarity |->
              calculateStringSimilarity(Last(existingSections, differ[i].title).content,
                                        differ[i].content)]],
      unchanged |-> same]

\* A mutation of compareSections: the unchanged sections are collected in a
\* loop over the existing Map.
compareSections_unchangedByExisting(existingSections, newSections) ==
  LET existingMap == SectionMap(existingSections)
      newMap == SectionMap(newSections)
      addedEntries == SelectSeq(newMap, LAMBDA e : ~MapHas(existingMap, e.key))
      removedEntries == SelectSeq(existingMap, LAMBDA e : ~MapHas(newMap, e.key))
      unchangedEntries ==
        SelectSeq(existingMap, LAMBDA e :
          MapHas(newMap, e.key)
          /\ MapGet(newMap, e.key).content = e.value.content)
      modifiedEntries ==
        SelectSeq(newMap, LAMBDA e :
          MapHas(existingMap, e.key)
          /\ MapGet(existingMap, e.key).content # e.value.content)
  IN [added |-> [i \in DOMAIN addedEntries |-> addedEntries[i].value],
      removed |-> [i \in DOMAIN removedEntries |-> removedEntries[i].value],
      modified |->
        [i \in DOMAIN modifiedEntries |->
           [title |-> modifiedEntries[i].key,
            existing |-> MapGet(existingMap, modifiedEntries[i].key),
            new |-> modifiedEntries[i].value,
            similarity |->
              calculateStringSimilarity(
                MapGet(existingMap, modifiedEntries[i].key).content,
                modifiedEntries[i].value.content)]],
      unchanged |-> [i \in DOMAIN unchangedEntries |-> unchangedEntries[i].value]]

compareSections(existingSections, newSections) ==
  LET existingMap == SectionMap(existingSections)
      newMap == SectionMap(newSections)
      addedEntries == SelectSeq(newMap, LAMBDA e : ~MapHas(existingMap, e.key))
      removedEntries == SelectSeq(existingMap, LAMBDA e : ~MapHas(newMap, e.key))
      unchangedEntries ==
        SelectSeq(newMap, LAMBDA e :
          MapHas(existingMap, e.key)
          /\ MapGet(existingMap, e.key).content = e.value.content)
      modifiedEntries ==
        SelectSeq(newMap, LAMBDA e :
          MapHas(existingMap, e.key)
          /\ MapGet(existingMap, e.key).content # e.value.content)
  IN [added |-> [i \in DOMAIN addedEntries |-> addedEntries[i].value],
      removed |-> [i \in DOMAIN removedEntries |-> removedEntries[i].value],
      modified |->
        [i \in DOMAIN modifiedEntries |->
           [title |-> modifiedEntries[i].key,
            existing |-> MapGet(existingMap, modifiedEntries[i].key),
            new |-> modifiedEntries[i].value,
            similarity |->
              calculateStringSimilarity(
                MapGet(existingMap, modifiedEntries[i].key).content,
                modifiedEntries[i].value.content)]],
      unchanged |-> [i \in DOMAIN unchangedEntries |-> unchangedEntries[i].value]]

\* Object spread { ...a, ...b }: the own properties of a, overwritten by b's.
Spread(a, b) ==
  [k \in DOMAIN a \cup DOMAIN b |-> IF k \in DOMAIN b THEN b[k] ELSE a[k]]

\* A mutation of mergeSections: the metadata spread is the other way round, so
\* existing's values win.
mergeSections_existingWins(existing, newDoc, now) ==
  LET comparison == compareSections(existing.enrichedContent.sections,
                                    newDoc.enrichedContent.sections)
      mergedSections ==
        comparison.unchanged
        \o [i \in DOMAIN comparison.modified |-> comparison.modified[i].new]
        \o comparison.added
  IN Spread(existing,
       [enrichedContent |->
          Spread(newDoc.enrichedContent, [sections |-> mergedSections]),
        metadata |->
          Spread(Spread(newDoc.metadata, existing.metadata),
                 (K_enrichmentTimestamp :> Str(now))),
        updatedAt |-> now])

\* A mutation of mergeSections: the modified sections are left out.
mergeSections_dropModified(existing, newDoc, now) ==
  LET comparison == compareSections(existing.enrichedContent.sections,
                                    newDoc.enrichedContent.sections)
      mergedSections == comparison.unchanged \o comparison.added
  IN Spread(existing,
       [enrichedContent |->
          Spread(newDoc.enrichedContent, [sections |-> mergedSections]),
        metadata |->
          Spread(Spread(existing.metadata, newDoc.metadata),
                 (K_enrichmentTimestamp :> Str(now))),
        updatedAt |-> now])

\* A mutation of mergeSections: the removed sections are kept at the end.
mergeSections_keepRemoved(existing, newDoc, now) ==
  LET comparison == compareSections(existing.enrichedContent.sections,
                                    newDoc.enrichedContent.sections)
      mergedSections ==
        comparison.unchanged
        \o [i \in DOMAIN comparison.modified |-> comparison.modified[i].new]
        \o comparison.added
        \o comparison.removed
  IN Spread(existing,
       [enrichedContent |->
          Spread(newDoc.enrichedContent, [sections |-> mergedSections]),
        metadata |->
          Spread(Spread(existing.metadata, newDoc.metadata),
                 (K_enrichmentTimestamp :> Str(now))),
        updatedAt |-> now])

\* A mutation of mergeSections: a modified section keeps its existing version.
mergeSections_keepExisting(existing, newDoc, now) ==
  LET comparison == compareSections(existing.enrichedContent.sections,
                                    newDoc.enrichedContent.sections)
      mergedSections ==
        comparison.unchanged
        \o [i \in DOMAIN comparison.modified |-> comparison.modified[i].existing]
        \o comparison.added
  IN Spread(existing,
       [enrichedContent |->
          Spread(newDoc.enrichedContent, [sections |-> mergedSections]),
        metadata |->
          Spread(Spread(existing.metadata, newDoc.metadata),
                 (K_enrichmentTimestamp :> Str(now))),
        updatedAt |-> now])

\* now is the value of new Date().toISOString()
mergeSections(existing, newDoc, now) ==
  LET comparison == compareSections(existing.enrichedContent.sections,
                                    newDoc.enrichedContent.sections)
      mergedSections ==
        comparison.unchanged
        \o [i \in DOMAIN comparison.modified |-> comparison.modified[i].new]
        \o comparison.added
  IN Spread(existing,
       [enrichedContent |->
          Spread(newDoc.enrichedContent, [sections |-> mergedSections]),
        metadata |->
          Spread(Spread(existing.metadata, newDoc.metadata),
                 (K_enrichmentTimestamp :> Str(now))),
        updatedAt |-> now])

\* A mutation of createMergePreview: 'prefer-new' keeps incoming's createdAt.
createMergePreview_newCreatedAt(existing, newDoc, strategy, now) ==
  CASE strategy = "prefer-new" ->
         Spread(newDoc,
           [id |-> Lookup(existing, "id"),
            updatedAt |-> now])
    [] strategy = "prefer-existing" ->
         Spread(existing, [updatedAt |-> now])
    [] OTHER -> mergeSections(existing, newDoc, now)

\* A mutation of createMergePreview: 'prefer-existing' falls through to the
\* section merge.
createMergePreview_fallThrough(existing, newDoc, strategy, now) ==
  CASE strategy = "prefer-new" ->
         Spread(newDoc,
           [id |-> Lookup(existing, "id"),
            createdAt |-> existing.createdAt,
            updatedAt |-> now])
    [] OTHER -> mergeSections(existing, newDoc, now)

\* strategy is "undefined" when the argument is omitted (the default applies)
createMergePreview(existing, newDoc, strategy, now) ==
  CASE strategy = "prefer-new" ->
         Spread(newDoc,
           [id |-> Lookup(existing, "id"),
            createdAt |-> existing.createdAt,
            updatedAt |-> now])
    [] strategy = "prefer-existing" ->
         Spread(existing, [updatedAt |-> now])
    [] OTHER -> mergeSections(existing, newDoc, now)

(***************************************************************************)
(* State                                                                   *)
(***************************************************************************)

VARIABLES
  pc,              \* the operation that ran last
  existing,        \* the stored document
  newDoc,          \* the incoming document
  options,         \* the options of analyzeDocuments
  analysis,        \* the DriftAnalysis analyzeDocuments returned
  comparison,      \* the result of compareSections
  strategy,        \* the strategy of createMergePreview
  now,             \* the clock reading of createMergePreview
  merged,          \* the document createMergePreview returned
  recompared,      \* compareSections of existing's and merged's sections
  changes,         \* a change list handed to calculateConfidence
  confidence,      \* calculateConfidence(changes)
  confidenceArg,   \* the confidence handed to generateRecommendation
  recommendation,  \* generateRecommendation(changes, confidenceArg)
  str1,            \* the first string handed to calculateStringSimilarity
  str2,            \* the second string
  similarity,      \* calculateStringSimilarity(str1, str2)
  remote,          \* what the '/detect-drift' request of QAService did
  driftResult,     \* how the promise of QAService.detectDrift settled
  localCalls,      \* the calls of performLocalDriftDetection so far
  store,           \* the state of the document store (DocumentManagerState)
  frame,           \* the locals of the processDocument call in flight or last settled
  calls            \* the calls of processDocument so far

vars == <<pc, existing, newDoc, options, analysis, comparison, strategy, now,
          merged, recompared, changes, confidence, confidenceArg, recommendation,
          str1, str2, similarity, remote, driftResult, localCalls,
          store, frame, calls>>

docVars == <<existing, newDoc, options, analysis, comparison, strategy, now, merged,
            recompared>>
listVars == <<changes, confidence, confidenceArg, recommendation>>

storeVars == <<store, frame, calls>>

auxVars == <<str1, str2, similarity, remote, driftResult, localCalls, store, frame,
            calls>>

None == "none"

\* The variables of the string and service operations, before any of them ran.
AuxIdle ==
  /\ str1 = None /\ str2 = None /\ similarity = None
  /\ remote = None /\ driftResult = None /\ localCalls = 0
  /\ store = None /\ frame = None /\ calls = 0

(***************************************************************************)
(* Documents of the model                                                  *)
(***************************************************************************)

\* The longest section list of a document.
MaxSections == 2

\* Titles: the second differs from the first in one word, the third in letter
\* case only.
T_AuthService == <<"A", "u", "t", "h", " ", "S", "e", "r", "v", "i", "c", "e">>
T_AuthenticationService == <<"A", "u", "t", "h", "e", "n", "t", "i", "c", "a", "t", "i", "o", "n", " ", "S", "e", "r", "v", "i", "c", "e">>
T_authservice == <<"a", "u", "t", "h", " ", "s", "e", "r", "v", "i", "c", "e">>

\* Texts: similarity to X_base is 3/10 for X_far, 5/6 for X_near, 2/3 for
\* X_mid and 1 for X_spaced (which differs in whitespace only).
X_base == <<"a", " ", "b", " ", "c", " ", "d", " ", "e", " ", "f">>
X_far == <<"a", " ", "b", " ", "c", " ", "g", " ", "h", " ", "i", " ", "j">>
X_near == <<"a", " ", "b", " ", "c", " ", "d", " ", "e">>
X_mid == <<"a", " ", "b", " ", "c", " ", "d">>
X_spaced == <<"a", " ", " ", "b", " ", "c", " ", "d", " ", "e", " ", "f">>
X_x == <<"x">>
\* Similarity to X_mid is exactly 1/2 for X_half, exactly 4/5 for X_near and
\* 2/3 for X_spaced; similarity of X_half to X_base is 1/3.
X_half == <<"a", " ", "b">>

T_Overview == <<"O", "v", "e", "r", "v", "i", "e", "w">>
T_New == <<"N", "e", "w">>
T_API == <<"A", "P", "I">>

Section(title, content, type) == [title |-> title, content |-> content, type |-> type]

\* Three titles, and two contents for one of them.
SectionPool ==
  {Section(T_Overview, X_base, "overview"),
   Section(T_Overview, X_far, "overview"),
   Section(T_New, X_x, "examples"),
   Section(T_API, X_near, "inputs")}

\* All sequences over S of length at most n.
SeqsUpTo(S, n) == UNION {[1..k -> S] : k \in 0..n}

SectionLists == SeqsUpTo(SectionPool, MaxSections)

\* Timestamps (ISO strings).
Timestamps ==
  [t0 |-> <<"T", "0">>,
   t1 |-> <<"T", "1">>,
   t8 |-> <<"T", "8">>,
   t9 |-> <<"T", "9">>]

\* Values of metadata fields.
Values ==
  [auth |-> <<"a", "u", "t", "h">>,
   billing |-> <<"b", "i", "l", "l", "i", "n", "g">>,
   v1 |-> <<"1", ".", "0">>,
   v2 |-> <<"2", ".", "0">>,
   ann |-> <<"a", "n", "n">>,
   bob |-> <<"b", "o", "b">>,
   db |-> <<"d", "b">>,
   mq |-> <<"m", "q">>,
   core |-> <<"c", "o", "r", "e">>,
   edge |-> <<"e", "d", "g", "e">>,
   it |-> <<"i", "t">>,
   ops |-> <<"o", "p", "s">>,
   gpt |-> <<"g", "p", "t">>,
   pending |-> <<"p", "e", "n", "d", "i", "n", "g">>,
   approved |-> <<"a", "p", "p", "r", "o", "v", "e", "d">>,
   owner |-> <<"o", "w", "n", "e", "r">>]

\* The properties every EnrichedDocumentMetadata has.
RequiredMetadata(timestamp, conf, status) ==
  (K_enrichmentTimestamp :> Str(timestamp)) @@ (K_llmModel :> Str(Values.gpt))
  @@ (K_confidence :> Num(conf)) @@ (K_reviewStatus :> Str(status))

M_base ==
  (K_serviceName :> Str(Values.auth)) @@ (K_version :> Str(Values.v1))
  @@ (K_author :> Str(Values.ann)) @@ (K_dependencies :> Arr(<<Values.db, Values.mq>>))
  @@ (K_tags :> Arr(<<Values.core, Values.edge>>)) @@ (K_category :> Str(Values.core))
  @@ (K_businessUnit :> Str(Values.it)) @@ RequiredMetadata(Timestamps.t0, 90, Values.pending)

\* version differs
M_version == Spread(M_base, (K_version :> Str(Values.v2)))
\* the same dependencies in another order
M_reordered == Spread(M_base, (K_dependencies :> Arr(<<Values.mq, Values.db>>)))
\* the same tags in another order, another author
M_tags == Spread(M_base, (K_tags :> Arr(<<Values.edge, Values.core>>)) @@ (K_author :> Str(Values.bob)))
\* no optional property
M_sparse == RequiredMetadata(Timestamps.t1, 100, Values.approved)
\* every compared property differs
M_other ==
  (K_serviceName :> Str(Values.billing)) @@ (K_version :> Str(Values.v2))
  @@ (K_dependencies :> Arr(<<Values.db>>)) @@ (K_tags :> Arr(<<>>))
  @@ (K_category :> Str(Values.edge)) @@ (K_businessUnit :> Str(Values.ops))
  @@ (K_reviewedBy :> Str(Values.bob)) @@ RequiredMetadata(Timestamps.t1, 85, Values.approved)

MetadataPool == {M_base, M_version, M_reordered, M_tags, M_sparse, M_other}

Content(title, summary, description, purpose, sections) ==
  [title |-> title, summary |-> summary, description |-> description,
   purpose |-> purpose, sections |-> sections]

\* A stored document: it has an id.
StoredDoc(content, metadata) ==
  [id |-> Str(Values.db), originalInput |-> "stored input", enrichedContent |-> content,
   metadata |-> metadata, structuredData |-> "stored data",
   createdAt |-> Timestamps.t0, updatedAt |-> Timestamps.t1]

\* A freshly enriched document: no id yet.
FreshDoc(content, metadata) ==
  [originalInput |-> "fresh input", enrichedContent |-> content,
   metadata |-> metadata, structuredData |-> "fresh data",
   createdAt |-> Timestamps.t8, updatedAt |-> Timestamps.t8]

BaseSections == <<Section(T_Overview, X_base, "overview")>>

\* Documents that differ from the base in their sections only.
SectionDocs ==
  {Content(T_AuthService, X_base, X_base, X_base, l) : l \in SectionLists}

\* Documents that differ from the base in title, description and purpose only.
TextDocs ==
  {Content(t, X_base, d, p, BaseSections) :
     t \in {T_AuthService, T_AuthenticationService, T_authservice},
     d \in {X_base, X_far, X_near, X_mid, X_spaced},
     p \in {X_base, X_near}}

\* Documents that differ from the base everywhere at once.
MixedDocs ==
  {Content(t, X_base, d, p, l) :
     t \in {T_AuthService, T_AuthenticationService},
     d \in {X_base, X_near},
     p \in {X_base, X_near},
     l \in {BaseSections,
            <<Section(T_Overview, X_far, "overview"), Section(T_New, X_x, "examples")>>}}

\* Pairs whose description, purpose and two section contents differ by
\* similarities on and around the thresholds, all at once: 1/3, 1/2, 2/3, 4/5,
\* 5/6 and 1.
BoundaryPairs ==
  {<<StoredDoc(Content(T_AuthService, X_base, x, x,
                       <<Section(T_Overview, x, "overview"),
                         Section(T_API, x, "inputs")>>), M_base),
     FreshDoc(Content(T_AuthService, X_base, d, p,
                      <<Section(T_Overview, c[1], "overview"),
                        Section(T_API, c[2], "inputs")>>), M_tags)>> :
     x \in {X_base, X_mid},
     d \in {X_half, X_near, X_spaced},
     p \in {X_half, X_near, X_spaced},
     c \in {X_half, X_near, X_spaced} \X {X_half, X_near, X_spaced}}

\* The pairs analyzeDocuments is run on: (existing, incoming), metadata included.
AnalyzePairs ==
  {<<StoredDoc(e, M_base), FreshDoc(n, M_base)>> : e \in SectionDocs, n \in SectionDocs}
  \cup {<<StoredDoc(e, M_base), FreshDoc(n, M_base)>> : e \in TextDocs, n \in TextDocs}
  \cup {<<StoredDoc(Content(T_AuthService, X_base, X_base, X_base, BaseSections), m1),
          FreshDoc(Content(T_AuthService, X_base, X_base, X_base, BaseSections), m2)>> :
          m1 \in MetadataPool, m2 \in MetadataPool}
  \cup {<<StoredDoc(e, m1), FreshDoc(n, m2)>> :
          e \in MixedDocs, n \in MixedDocs,
          m1 \in {M_base}, m2 \in {M_base, M_tags, M_other}}
  \cup {<<StoredDoc(e, m), StoredDoc(e, m)>> :
          e \in SectionDocs \cup TextDocs, m \in {M_base, M_sparse}}
  \cup BoundaryPairs

\* options: each property present or absent
OptionsPool ==
  {t @@ i @@ f :
     t \in {<<>>, [threshold |-> 90]},
     i \in {<<>>, [ignoreMinorChanges |-> FALSE], [ignoreMinorChanges |-> TRUE]},
     f \in {<<>>, [focusAreas |-> <<K_tags, K_author, Values.owner>>]}}

(***************************************************************************)
(* analyzeDocuments on a pair of documents                                 *)
(***************************************************************************)

Init ==
  /\ pc = "init"
  /\ \E pair \in AnalyzePairs : existing = pair[1] /\ newDoc = pair[2]
  /\ options = None /\ analysis = None
  /\ comparison = None /\ strategy = None /\ now = None /\ merged = None
  /\ recompared = None
  /\ changes = None /\ confidence = None /\ confidenceArg = None
  /\ recommendation = None
  /\ AuxIdle

AnalyzeDocuments ==
  \E o \in OptionsPool :
    /\ pc = "init"
    /\ options' = o
    /\ analysis' = analyzeDocuments(existing, newDoc, o)
    /\ pc' = "analyzeDocuments"
    /\ UNCHANGED <<existing, newDoc, comparison, strategy, now, merged, recompared>>
    /\ UNCHANGED listVars
    /\ UNCHANGED auxVars

Next == AnalyzeDocuments

Spec == Init /\ [][Next]_vars

----------------------------------------------------------------------------
\* C1: a document compared with itself has no changes, confidence 1.0 and
\* recommendation create-new, whatever the options.
C1_SelfComparison ==
  (pc = "analyzeDocuments" /\ existing = newDoc) =>
    analysis = [hasChanges |-> FALSE, confidence |-> 100,
                changes |-> <<>>, recommendation |-> "create-new"]

\* A self-comparison of a document with a repeated section title and no
\* optional metadata.
C1_Witness ==
  /\ pc = "analyzeDocuments" /\ existing = newDoc
  /\ \E i, j \in DOMAIN existing.enrichedContent.sections :
       /\ i < j
       /\ existing.enrichedContent.sections[i].title
            = existing.enrichedContent.sections[j].title
       /\ existing.enrichedContent.sections[i].content
            # existing.enrichedContent.sections[j].content
  /\ ~Has(existing.metadata, K_serviceName)
  /\ Has(options, "focusAreas") /\ Has(options, "ignoreMinorChanges")

\* Only the titles differ: "Auth Service" became "Authentication Service".
C5_Scenario ==
  /\ pc = "analyzeDocuments"
  /\ existing.enrichedContent.title = T_AuthService
  /\ newDoc.enrichedContent.title = T_AuthenticationService
  /\ [existing.enrichedContent EXCEPT !.title = <<>>]
       = [newDoc.enrichedContent EXCEPT !.title = <<>>]
  /\ existing.metadata = newDoc.metadata

\* C5 as stated: the one change, on section "title", is of medium significance
\* because the similarity of the titles is 2/3.
C5_Original ==
  C5_Scenario =>
    /\ Len(analysis.changes) = 1
    /\ analysis.changes[1].section = K_title
    /\ analysis.changes[1].significance = "medium"
    /\ calculateStringSimilarity(existing.enrichedContent.title,
                                 newDoc.enrichedContent.title) = Frac(2, 3)

\* C5 amended: the token sets {auth, service} and {authentication, service}
\* share one of three tokens, so the similarity is 1/3 and the one change, on
\* section "title", is of high significance.
C5_TitleScenario ==
  C5_Scenario =>
    /\ Len(analysis.changes) = 1
    /\ analysis.changes[1].section = K_title
    /\ analysis.changes[1].type = "modification"
    /\ analysis.changes[1].oldValue = T_AuthService
    /\ analysis.changes[1].newValue = T_AuthenticationService
    /\ analysis.changes[1].significance = "high"
    /\ calculateStringSimilarity(existing.enrichedContent.title,
                                 newDoc.enrichedContent.title) = Frac(1, 3)

C5_Witness ==
  /\ C5_Scenario
  /\ analysis.hasChanges
  /\ analysis.changes[1].section = K_title
  /\ analysis.recommendation = "update-existing"

\* Existing has [Overview]; incoming has [Overview with content of similarity
\* 3/10, New]; nothing else differs.
C6_Scenario ==
  /\ pc = "analyzeDocuments"
  /\ existing.enrichedContent.sections = <<Section(T_Overview, X_base, "overview")>>
  /\ newDoc.enrichedContent.sections =
       <<Section(T_Overview, X_far, "overview"), Section(T_New, X_x, "examples")>>
  /\ [existing.enrichedContent EXCEPT !.sections = <<>>]
       = [newDoc.enrichedContent EXCEPT !.sections = <<>>]
  /\ existing.metadata = newDoc.metadata

\* section, type and significance of each change, in list order
Outline(list) ==
  [i \in DOMAIN list |-> <<list[i].section, list[i].type, list[i].significance>>]

\* C6 as stated: the modification of Overview comes before the addition of New.
C6_Original ==
  C6_Scenario =>
    Outline(analysis.changes) =
      << <<P_sections \o T_Overview, "modification", "high">>,
         <<P_sections \o T_New, "addition", "medium">> >>

\* C6 amended: the change list is [addition 'sections.New' medium,
\* modification 'sections.Overview' high]: additions precede modifications.
C6_SectionScenario ==
  C6_Scenario =>
    Outline(analysis.changes) =
      << <<P_sections \o T_New, "addition", "medium">>,
         <<P_sections \o T_Overview, "modification", "high">> >>

C6_Witness ==
  /\ C6_Scenario
  /\ Len(analysis.changes) = 2
  /\ analysis.confidence = 47
  /\ analysis.recommendation = "manual-review"

(***************************************************************************)
(* compareSections and createMergePreview on a pair of documents           *)
(***************************************************************************)

\* Section lists in which a section differs from one of the pool in its type
\* only.
RetypedLists ==
  {<<Section(T_Overview, X_base, "examples")>>,
   <<Section(T_Overview, X_base, "overview"), Section(T_Overview, X_base, "examples")>>,
   <<Section(T_New, X_x, "overview"), Section(T_Overview, X_far, "overview")>>}

\* The pairs that are compared and merged: every pair of section lists, in two
\* documents that differ in every other property; pairs with retyped
\* sections; and a few pairs with other metadata, the stored document
\* without an id.
MergePairs ==
  {<<StoredDoc(Content(T_AuthService, X_base, X_base, X_base, l1), M_base),
     FreshDoc(Content(T_AuthenticationService, X_near, X_far, X_mid, l2), M_other)>> :
     l1 \in SectionLists, l2 \in SectionLists}
  \cup {<<StoredDoc(Content(T_AuthService, X_base, X_base, X_base, l1), M_base),
          FreshDoc(Content(T_AuthenticationService, X_near, X_far, X_mid, l2), M_other)>> :
          l1 \in RetypedLists \cup {BaseSections},
          l2 \in RetypedLists \cup {BaseSections}}
  \cup {<<FreshDoc(e, m[1]), StoredDoc(n, m[2])>> :
          e \in MixedDocs, n \in MixedDocs,
          m \in {<<M_other, M_sparse>>, <<M_sparse, M_tags>>}}

Strategies == {"prefer-new", "prefer-existing", "merge-sections", "undefined"}

\* Readings of the clock.
Times == {Timestamps.t8, Timestamps.t9}

MergeInit ==
  /\ pc = "init"
  /\ \E pair \in MergePairs : existing = pair[1] /\ newDoc = pair[2]
  /\ options = None /\ analysis = None
  /\ comparison = None /\ strategy = None /\ now = None /\ merged = None
  /\ recompared = None
  /\ changes = None /\ confidence = None /\ confidenceArg = None
  /\ recommendation = None
  /\ AuxIdle

CompareSections ==
  /\ pc = "init"
  /\ comparison' = compareSections(existing.enrichedContent.sections,
                                   newDoc.enrichedContent.sections)
  /\ pc' = "compareSections"
  /\ UNCHANGED <<existing, newDoc, options, analysis, strategy, now, merged, recompared>>
  /\ UNCHANGED listVars
  /\ UNCHANGED auxVars

CreateMergePreview ==
  \E s \in Strategies, t \in Times :
    /\ pc = "init"
    /\ strategy' = s
    /\ now' = t
    /\ merged' = createMergePreview(existing, newDoc, s, t)
    /\ pc' = "createMergePreview"
    /\ UNCHANGED <<existing, newDoc, options, analysis, comparison, recompared>>
    /\ UNCHANGED listVars
    /\ UNCHANGED auxVars

\* The section comparison of the stored document with the merge result.
CompareMerged ==
  /\ pc = "createMergePreview"
  /\ strategy \in {"merge-sections", "undefined"}
  /\ recompared' = compareSections(existing.enrichedContent.sections,
                                   merged.enrichedContent.sections)
  /\ pc' = "compareMerged"
  /\ UNCHANGED <<existing, newDoc, options, analysis, comparison, strategy, now, merged>>
  /\ UNCHANGED listVars
  /\ UNCHANGED auxVars

MergeNext == CompareSections \/ CreateMergePreview \/ CompareMerged

SpecMerge == MergeInit /\ [][MergeNext]_vars

----------------------------------------------------------------------------
Titles(sections) == [i \in DOMAIN sections |-> sections[i].title]

\* How often x occurs in the sequence seq.
Occurrences(seq, x) == Cardinality({i \in DOMAIN seq : seq[i] = x})

\* The titles of the four outputs of compareSections, one after the other.
OutputTitles(c) ==
  Titles(c.added) \o Titles(c.removed)
  \o [i \in DOMAIN c.modified |-> c.modified[i].title] \o Titles(c.unchanged)

\* C7: every title of existing or incoming occurs exactly once in the four
\* outputs of compareSections taken together, and no other title occurs.
C7_Partition ==
  pc = "compareSections" =>
    LET inputTitles == SetOf(Titles(existing.enrichedContent.sections))
                       \cup SetOf(Titles(newDoc.enrichedContent.sections))
        out == OutputTitles(comparison)
    IN /\ \A t \in inputTitles : Occurrences(out, t) = 1
       /\ SetOf(out) \subseteq inputTitles

\* A title repeated with two contents in existing, and three of the four
\* outputs non-empty.
C7_Witness ==
  /\ pc = "compareSections"
  /\ \E i, j \in DOMAIN existing.enrichedContent.sections :
       /\ i # j
       /\ existing.enrichedContent.sections[i].title
            = existing.enrichedContent.sections[j].title
       /\ existing.enrichedContent.sections[i].content
            # existing.enrichedContent.sections[j].content
  /\ Len(comparison.modified) = 1
  /\ Len(comparison.added) = 1

\* C8: with 'merge-sections' or no strategy, the merged sections are the
\* unchanged sections, then the incoming version of each modified section,
\* then the added sections; no removed section is among them.
C8_MergedSections ==
  (pc = "createMergePreview" /\ strategy \in {"merge-sections", "undefined"}) =>
    LET c == compareSections(existing.enrichedContent.sections,
                             newDoc.enrichedContent.sections)
        sections == merged.enrichedContent.sections
    IN /\ sections = c.unchanged
                     \o [i \in DOMAIN c.modified |-> c.modified[i].new]
                     \o c.added
       /\ \A i \in DOMAIN c.removed :
            \A j \in DOMAIN sections : sections[j].title # c.removed[i].title

\* A default-strategy merge with a removed, a modified and an added section.
C8_Witness ==
  /\ pc = "createMergePreview" /\ strategy = "undefined"
  /\ Len(merged.enrichedContent.sections) = 2
  /\ \E i \in DOMAIN existing.enrichedContent.sections :
       \A j \in DOMAIN merged.enrichedContent.sections :
         merged.enrichedContent.sections[j].title
           # existing.enrichedContent.sections[i].title
  /\ merged.enrichedContent.sections[1].title = T_Overview
  /\ merged.enrichedContent.sections[1].content = X_far
  /\ merged.enrichedContent.sections[2].title # T_Overview

\* C9: comparing existing's sections with the merged sections reports as
\* removed exactly the titles the original comparison reported as removed; no
\* unchanged or modified title of the original comparison is among them.
C9_RoundTrip ==
  pc = "compareMerged" =>
    LET c == compareSections(existing.enrichedContent.sections,
                             newDoc.enrichedContent.sections)
    IN /\ SetOf(Titles(recompared.removed)) = SetOf(Titles(c.removed))
       /\ \A i \in DOMAIN recompared.removed :
            /\ \A j \in DOMAIN c.unchanged :
                 c.unchanged[j].title # recompared.removed[i].title
            /\ \A j \in DOMAIN c.modified :
                 c.modified[j].title # recompared.removed[i].title

\* A round trip in which one title was removed and another was modified.
C9_Witness ==
  /\ pc = "compareMerged"
  /\ Len(recompared.removed) = 1
  /\ Len(recompared.modified) = 1

\* C10: 'prefer-existing' returns existing with updatedAt set to the clock
\* reading and every other property (id or its absence, content, metadata
\* with its enrichmentTimestamp, createdAt) as in existing.
C10_PreferExisting ==
  (pc = "createMergePreview" /\ strategy = "prefer-existing") =>
    /\ merged.updatedAt = now
    /\ DOMAIN merged = DOMAIN existing
    /\ \A k \in DOMAIN existing \ {"updatedAt"} : merged[k] = existing[k]

\* A prefer-existing merge of two documents that differ in content, metadata,
\* id and timestamps, at a time other than existing's updatedAt.
C10_Witness ==
  /\ pc = "createMergePreview" /\ strategy = "prefer-existing"
  /\ existing.enrichedContent # newDoc.enrichedContent
  /\ existing.metadata # newDoc.metadata
  /\ existing.createdAt # newDoc.createdAt
  /\ Has(newDoc, "id") /\ ~Has(existing, "id")
  /\ merged.updatedAt # existing.updatedAt

\* C11: 'prefer-new' returns incoming's content and metadata, existing's id
\* and createdAt, and the clock reading as updatedAt.
C11_PreferNew ==
  (pc = "createMergePreview" /\ strategy = "prefer-new") =>
    /\ merged.enrichedContent = newDoc.enrichedContent
    /\ merged.metadata = newDoc.metadata
    /\ merged.id = Lookup(existing, "id")
    /\ merged.createdAt = existing.createdAt
    /\ merged.updatedAt = now

\* A prefer-new merge of two documents that differ in content, metadata, id
\* and createdAt.
C11_Witness ==
  /\ pc = "createMergePreview" /\ strategy = "prefer-new"
  /\ existing.enrichedContent # newDoc.enrichedContent
  /\ existing.metadata # newDoc.metadata
  /\ existing.createdAt # newDoc.createdAt
  /\ Has(existing, "id") /\ ~Has(newDoc, "id")
  /\ merged.id = existing.id
  /\ merged.updatedAt # newDoc.updatedAt

\* C12: with 'merge-sections' or no strategy, title, summary, description and
\* purpose are incoming's; every metadata key but enrichmentTimestamp has
\* incoming's value where incoming has the key and existing's otherwise; id
\* and createdAt are existing's; enrichmentTimestamp and updatedAt are the
\* clock reading.
C12_MergedFields ==
  (pc = "createMergePreview" /\ strategy \in {"merge-sections", "undefined"}) =>
    /\ \A f \in {"title", "summary", "description", "purpose"} :
         merged.enrichedContent[f] = newDoc.enrichedContent[f]
    /\ DOMAIN merged.metadata
         = DOMAIN existing.metadata \cup DOMAIN newDoc.metadata
           \cup {K_enrichmentTimestamp}
    /\ \A k \in DOMAIN merged.metadata \ {K_enrichmentTimestamp} :
         merged.metadata[k] =
           IF k \in DOMAIN newDoc.metadata
             THEN newDoc.metadata[k] ELSE existing.metadata[k]
    /\ Has(merged, "id") = Has(existing, "id")
    /\ Has(existing, "id") => merged.id = existing.id
    /\ merged.createdAt = existing.createdAt
    /\ merged.metadata[K_enrichmentTimestamp] = Str(now)
    /\ merged.updatedAt = now

\* A section merge in which incoming lacks metadata keys that existing has,
\* and both have a key with different values.
C12_Witness ==
  /\ pc = "createMergePreview" /\ strategy = "merge-sections"
  /\ ~Has(newDoc.metadata, K_serviceName)
  /\ Has(existing.metadata, K_serviceName)
  /\ merged.metadata[K_serviceName] = existing.metadata[K_serviceName]
  /\ existing.metadata[K_confidence] # newDoc.metadata[K_confidence]
  /\ merged.metadata[K_confidence] = newDoc.metadata[K_confidence]
  /\ existing.enrichedContent.title # newDoc.enrichedContent.title

(***************************************************************************)
(* calculateStringSimilarity on a pair of strings                          *)
(***************************************************************************)

\* The longest string enumerated.
MaxLen == 3

\* A lower-case letter, its upper-case form and a whitespace character.
Alphabet == {"a", "A", " "}

\* Strings that are empty or hold punctuation.
PunctuationStrings ==
  {<<>>, <<"!">>, <<"!", "!">>, <<"?", "?">>, <<"!", "?">>, <<"!", " ", "?">>,
   <<"a", "!">>, <<"a", " ", "!">>}

Strings == SeqsUpTo(Alphabet, MaxLen)

\* Pairs of longer strings.
ExtraStringPairs ==
  {<<T_AuthService, T_AuthenticationService>>,
   <<T_AuthService, T_authservice>>,
   <<X_base, X_far>>, <<X_base, X_spaced>>, <<X_near, X_base>>,
   <<<<"a", "\t", "b", "\n">>, <<"b", " ", "a">>>>}

StringPairs ==
  (Strings \X Strings)
  \cup (PunctuationStrings \X (PunctuationStrings \cup {<<"A">>, <<"a", " ">>}))
  \cup ExtraStringPairs

SimInit ==
  /\ pc = "init"
  /\ str1 = None /\ str2 = None /\ similarity = None
  /\ remote = None /\ driftResult = None /\ localCalls = 0
  /\ store = None /\ frame = None /\ calls = 0
  /\ existing = None /\ newDoc = None /\ options = None /\ analysis = None
  /\ comparison = None /\ strategy = None /\ now = None /\ merged = None
  /\ recompared = None
  /\ changes = None /\ confidence = None /\ confidenceArg = None
  /\ recommendation = None

CalculateStringSimilarity ==
  \E pair \in StringPairs :
    /\ pc = "init"
    /\ str1' = pair[1]
    /\ str2' = pair[2]
    /\ similarity' = calculateStringSimilarity(pair[1], pair[2])
    /\ pc' = "calculateStringSimilarity"
    /\ UNCHANGED <<remote, driftResult, localCalls>>
    /\ UNCHANGED storeVars
    /\ UNCHANGED docVars
    /\ UNCHANGED listVars

SimNext == CalculateStringSimilarity

SpecSim == SimInit /\ [][SimNext]_vars

----------------------------------------------------------------------------
Compared == pc = "calculateStringSimilarity"

\* C13: the similarity of a string with itself is 1.0, also for the empty
\* string and for strings with leading, trailing or repeated whitespace.
C13_Reflexive ==
  (Compared /\ str1 = str2) => similarity = Frac(1, 1)

\* A string with leading and trailing whitespace compared with itself.
C13_Witness ==
  /\ Compared /\ str1 = str2
  /\ str1 = <<" ", "A", " ">>
  /\ similarity.num = 1

\* C14: the similarity does not depend on the order of its arguments and lies
\* in [0, 1].
C14_Symmetric ==
  Compared =>
    /\ similarity = calculateStringSimilarity(str2, str1)
    /\ similarity.den > 0
    /\ 0 <= similarity.num /\ similarity.num <= similarity.den

\* Two strings with token sets of different sizes, one inside the other.
C14_Witness ==
  /\ Compared
  /\ str1 = <<"a", " ", "!">> /\ str2 = <<"A">>
  /\ similarity = Frac(1, 2)

\* The case-folded tokens of s, a token being a maximal run of characters
\* that are not whitespace.
Tokens(s) ==
  {toLowerCase(SubSeq(s, i, j)) : <<i, j>> \in
     {p \in (1..Len(s)) \X (1..Len(s)) :
        /\ p[1] <= p[2]
        /\ \A k \in p[1]..p[2] : ~IsWhitespace(s[k])
        /\ (p[1] = 1 \/ IsWhitespace(s[p[1] - 1]))
        /\ (p[2] = Len(s) \/ IsWhitespace(s[p[2] + 1]))}}

\* C15: the similarity is the Jaccard index of the two token sets (wherever
\* that index is defined), so leading or trailing whitespace and repeated
\* tokens do not change it.
C15_JaccardOfTokens ==
  (Compared /\ Tokens(str1) \cup Tokens(str2) # {}) =>
    similarity = Frac(Cardinality(Tokens(str1) \cap Tokens(str2)),
                      Cardinality(Tokens(str1) \cup Tokens(str2)))

\* s is empty or consists of punctuation characters only.
OnlyPunctuation(s) == \A i \in DOMAIN s : s[i] \in {"!", "?"}

\* C16 as stated: two strings that are each empty or punctuation only have
\* similarity 1.0.
C16_Original ==
  (Compared /\ OnlyPunctuation(str1) /\ OnlyPunctuation(str2)) =>
    similarity = Frac(1, 1)

\* C16 amended: punctuation is not stripped, a string that is empty or
\* punctuation only is one token; two such strings have similarity 1.0 when
\* they are equal (two empty strings among them) and 0 otherwise.
C16_PunctuationTokens ==
  (Compared /\ OnlyPunctuation(str1) /\ OnlyPunctuation(str2)) =>
    similarity = IF str1 = str2 THEN Frac(1, 1) ELSE Frac(0, 1)

\* "!!" compared with "??".
C16_Witness ==
  /\ Compared
  /\ str1 = <<"!", "!">> /\ str2 = <<"?", "?">>
  /\ similarity.num = 0

(***************************************************************************)
(* Documents whose enrichedContent has no sections property                *)
(***************************************************************************)

\* Reading a property of undefined (sections.map) throws.
TypeError == [threw |-> "TypeError"]

\* The call of analyzeDocuments as a whole: title, description and purpose are
\* analysed first without effect, then analyzeSectionChanges maps over both
\* section lists and throws when one of them is undefined.
analyzeDocumentsOrThrow(old, new, opts) ==
  IF \/ ~Has(old.enrichedContent, "sections")
     \/ ~Has(new.enrichedContent, "sections")
    THEN TypeError
    ELSE analyzeDocuments(old, new, opts)

\* The call of compareSections on the sections of two contents, as a whole:
\* it maps over both section lists first and throws when one of them is
\* undefined.
compareSectionsOrThrow(oldContent, newContent) ==
  IF ~Has(oldContent, "sections") \/ ~Has(newContent, "sections")
    THEN TypeError
    ELSE compareSections(oldContent.sections, newContent.sections)

\* The content without its sections property.
WithoutSections(content) ==
  [k \in DOMAIN content \ {"sections"} |-> content[k]]

\* Pairs of documents of which one or both have no sections, and a few pairs
\* that have them.
AbsentPairs ==
  {<<StoredDoc(WithoutSections(e), M_base), FreshDoc(n, M_base)>> :
     e \in {Content(T_AuthService, X_base, X_base, X_base, BaseSections)},
     n \in SectionDocs}
  \cup {<<StoredDoc(e, M_base), FreshDoc(WithoutSections(n), M_base)>> :
          e \in SectionDocs,
          n \in {Content(T_AuthService, X_base, X_base, X_base, BaseSections)}}
  \cup {<<StoredDoc(WithoutSections(e), M_base), FreshDoc(WithoutSections(n), M_version)>> :
          e \in TextDocs,
          n \in {Content(T_AuthService, X_base, X_base, X_base, BaseSections)}}
  \cup {<<StoredDoc(e, M_base), FreshDoc(n, M_base)>> :
          e \in MixedDocs,
          n \in {Content(T_AuthService, X_base, X_base, X_base, BaseSections)}}

AbsentInit ==
  /\ pc = "init"
  /\ \E pair \in AbsentPairs : existing = pair[1] /\ newDoc = pair[2]
  /\ options = None /\ analysis = None
  /\ comparison = None /\ strategy = None /\ now = None /\ merged = None
  /\ recompared = None
  /\ changes = None /\ confidence = None /\ confidenceArg = None
  /\ recommendation = None
  /\ AuxIdle

AnalyzeDocumentsOrThrow ==
  \E opts \in OptionsPool :
    /\ pc = "init"
    /\ options' = opts
    /\ analysis' = analyzeDocumentsOrThrow(existing, newDoc, opts)
    /\ pc' = "analyzeDocuments"
    /\ UNCHANGED <<existing, newDoc, comparison, strategy, now, merged, recompared>>
    /\ UNCHANGED listVars
    /\ UNCHANGED auxVars

CompareSectionsOrThrow ==
  /\ pc = "init"
  /\ comparison' = compareSectionsOrThrow(existing.enrichedContent,
                                          newDoc.enrichedContent)
  /\ pc' = "compareSections"
  /\ UNCHANGED <<existing, newDoc, options, analysis, strategy, now, merged, recompared>>
  /\ UNCHANGED listVars
  /\ UNCHANGED auxVars

AbsentNext == AnalyzeDocumentsOrThrow \/ CompareSectionsOrThrow

SpecAbsent == AbsentInit /\ [][AbsentNext]_vars

----------------------------------------------------------------------------
\* The document with an empty section list where it has none.
SectionsDefaulted(doc) ==
  IF Has(doc.enrichedContent, "sections") THEN doc
  ELSE [doc EXCEPT !.enrichedContent =
          [k \in DOMAIN doc.enrichedContent \cup {"sections"} |->
             IF k = "sections" THEN <<>> ELSE doc.enrichedContent[k]]]

\* C17: a document without sections is analysed and compared as one with an
\* empty section list; both operations return a normal result, the other
\* document's sections reported as added or removed.
C17_AbsentAsEmpty ==
  /\ pc = "analyzeDocuments" =>
       analysis = analyzeDocuments(SectionsDefaulted(existing),
                                   SectionsDefaulted(newDoc), options)
  /\ pc = "compareSections" =>
       comparison = compareSections(SectionsDefaulted(existing).enrichedContent.sections,
                                    SectionsDefaulted(newDoc).enrichedContent.sections)

(***************************************************************************)
(* QAService.detectDrift: the remote analysis and its local substitute     *)
(***************************************************************************)

\* QAService.calculateSimilarity: as calculateStringSimilarity, but 0 for an
\* empty union.
calculateSimilarity(text1, text2) ==
  LET set1 == SetOf(split(toLowerCase(text1)))
      set2 == SetOf(split(toLowerCase(text2)))
      intersection == {x \in set1 : x \in set2}
      union == set1 \cup set2
  IN IF Cardinality(union) = 0
       THEN Frac(0, 1)
       ELSE Frac(Cardinality(intersection), Cardinality(union))

\* In hundredths: 1.0 less 0.1 per change but at least 0.3, less 0.2 per high
\* and 0.1 per medium change, clamped into [0.1, 1.0].
calculateDriftConfidence(list) ==
  IF Len(list) = 0 THEN 100
  ELSE LET highImpact == CountSignificance(list, "high")
           mediumImpact == CountSignificance(list, "medium")
           confidence0 == Max(30, 100 - (Len(list) * 10))
                            - ((highImpact * 20) + (mediumImpact * 10))
       IN Max(10, Min(100, confidence0))

\* The loop over the modified sections of performLocalDriftDetection.
LocalModifiedSectionChanges(existingSections, newSections) ==
  LET Differs(e) ==
        /\ MapHas(existingSections, e.key)
        /\ FracLess(calculateSimilarity(MapGet(existingSections, e.key).content,
                                        e.value.content), 80, 100)
      changed == SelectSeq(newSections, Differs)
  IN [i \in DOMAIN changed |->
        LET existingSection == MapGet(existingSections, changed[i].key)
            newSection == changed[i].value
            sectionSimilarity ==
              calculateSimilarity(existingSection.content, newSection.content)
        IN [section |-> P_sections \o changed[i].key,
            type |-> "modification",
            oldValue |-> existingSection.content,
            newValue |-> newSection.content,
            significance |->
              IF FracLess(sectionSimilarity, 50, 100) THEN "high" ELSE "medium"]]

performLocalDriftDetection(old, new) ==
  LET titleChanges ==
        IF old.enrichedContent.title # new.enrichedContent.title
          THEN <<[section |-> K_title,
                  type |-> "modification",
                  oldValue |-> old.enrichedContent.title,
                  newValue |-> new.enrichedContent.title,
                  significance |-> "medium"]>>
          ELSE <<>>
      descriptionSimilarity ==
        calculateSimilarity(old.enrichedContent.description,
                            new.enrichedContent.description)
      descriptionChanges ==
        IF FracLess(descriptionSimilarity, 80, 100)
          THEN <<[section |-> K_description,
                  type |-> "modification",
                  oldValue |-> old.enrichedContent.description,
                  newValue |-> new.enrichedContent.description,
                  significance |->
                    IF FracLess(descriptionSimilarity, 50, 100)
                      THEN "high" ELSE "medium"]>>
          ELSE <<>>
      existingSections == SectionMap(old.enrichedContent.sections)
      newSections == SectionMap(new.enrichedContent.sections)
      list == titleChanges \o descriptionChanges
                \o DeletedSectionChanges(existingSections, newSections)
                \o NewSectionChanges(existingSections, newSections)
                \o LocalModifiedSectionChanges(existingSections, newSections)
      hasChanges == Len(list) > 0
      highImpactChanges == CountSignificance(list, "high")
  IN [hasChanges |-> hasChanges,
      confidence |-> calculateDriftConfidence(list),
      changes |-> list,
      recommendation |->
        IF ~hasChanges THEN "create-new"
        ELSE IF highImpactChanges > 2 THEN "manual-review"
        ELSE IF Len(list) <= 3 THEN "update-existing"
        ELSE "manual-review"]

\* Analyses the remote service may answer with.
RemoteAnalyses ==
  {[hasChanges |-> TRUE, confidence |-> 42, changes |-> <<>>,
    recommendation |-> "merge-required"],
   [hasChanges |-> FALSE, confidence |-> 100, changes |-> <<>>,
    recommendation |-> "create-new"]}

\* What client.post does: it rejects (network error, status outside 2xx), or
\* fulfils with a response whose data is absent or is an ApiResponse with
\* success and, optionally, data or error.
RemoteOutcomes ==
  {[settled |-> "rejected"], [settled |-> "fulfilled"]}
  \cup {[settled |-> "fulfilled", data |-> body] :
          body \in {[success |-> FALSE],
                    [success |-> FALSE, error |-> "unavailable"],
                    [success |-> TRUE]}}
  \cup {[settled |-> "fulfilled", data |-> [success |-> ok, data |-> a]] :
          ok \in BOOLEAN, a \in RemoteAnalyses}

\* A mutation of detectDrift: no try/catch around the request.
detectDrift_propagate(old, new, response) ==
  IF response.settled = "rejected" \/ ~Has(response, "data")
    THEN [settled |-> "rejected", localCalls |-> 0]
  ELSE IF response.data.success /\ Has(response.data, "data")
    THEN [settled |-> "fulfilled", value |-> response.data.data, localCalls |-> 0]
  ELSE [settled |-> "fulfilled", value |-> performLocalDriftDetection(old, new),
        localCalls |-> 1]

\* detectDrift once the request has settled as response: how its promise
\* settles and how often performLocalDriftDetection was called.  A rejected
\* request and a response without data (reading success of undefined) both
\* throw inside the try block and are caught.
detectDrift(old, new, response) ==
  IF response.settled = "rejected" \/ ~Has(response, "data")
    THEN [settled |-> "fulfilled", value |-> performLocalDriftDetection(old, new),
          localCalls |-> 1]
  ELSE IF response.data.success /\ Has(response.data, "data")
    THEN [settled |-> "fulfilled", value |-> response.data.data, localCalls |-> 0]
  ELSE [settled |-> "fulfilled", value |-> performLocalDriftDetection(old, new),
        localCalls |-> 1]

\* How the promise settled: fulfilled with a value, or rejected.
Settlement(outcome) == [k \in DOMAIN outcome \ {"localCalls"} |-> outcome[k]]

\* The pairs detectDrift is called on.
DriftPairs ==
  {<<StoredDoc(e, M_base), FreshDoc(n, M_base)>> : e \in MixedDocs, n \in MixedDocs}
  \cup {<<StoredDoc(e, M_base), FreshDoc(n, M_base)>> : e \in SectionDocs, n \in SectionDocs}
  \cup {<<StoredDoc(e, M_base), FreshDoc(n, M_version)>> :
          e \in {Content(T_AuthService, X_base, X_base, X_base, BaseSections)},
          n \in TextDocs}
  \cup {<<StoredDoc(e, M_base), FreshDoc(n, M_base)>> :
          e \in SectionDocs,
          n \in {Content(T_AuthenticationService, X_base, X_far, X_base, BaseSections)}}

DriftInit ==
  /\ pc = "init"
  /\ \E pair \in DriftPairs : existing = pair[1] /\ newDoc = pair[2]
  /\ options = None /\ analysis = None
  /\ comparison = None /\ strategy = None /\ now = None /\ merged = None
  /\ recompared = None
  /\ changes = None /\ confidence = None /\ confidenceArg = None
  /\ recommendation = None
  /\ AuxIdle

\* detectDrift up to its await: the request is sent.
PostDetectDrift ==
  /\ pc = "init"
  /\ pc' = "post"
  /\ UNCHANGED docVars
  /\ UNCHANGED listVars
  /\ UNCHANGED auxVars

\* The request settles and detectDrift runs to its end.
SettleDetectDrift ==
  \E response \in RemoteOutcomes :
    /\ pc = "post"
    /\ remote' = response
    /\ driftResult' = Settlement(detectDrift(existing, newDoc, response))
    /\ localCalls' = localCalls + detectDrift(existing, newDoc, response).localCalls
    /\ pc' = "detectDrift"
    /\ UNCHANGED <<str1, str2, similarity>>
    /\ UNCHANGED storeVars
    /\ UNCHANGED docVars
    /\ UNCHANGED listVars

DriftNext == PostDetectDrift \/ SettleDetectDrift

SpecDrift == DriftInit /\ [][DriftNext]_vars

----------------------------------------------------------------------------
\* The request succeeded with data.
RemoteAnswered ==
  /\ remote.settled = "fulfilled"
  /\ Has(remote, "data")
  /\ remote.data.success
  /\ Has(remote.data, "data")

\* C18: detectDrift never rejects because of the remote call; when the request
\* throws or answers without success or without data it resolves with the
\* analysis computed locally from the two documents, and when the request
\* succeeds with data it resolves with that data and runs no local analysis.
C18_LocalFallback ==
  pc = "detectDrift" =>
    /\ driftResult.settled = "fulfilled"
    /\ IF RemoteAnswered
         THEN driftResult.value = remote.data.data /\ localCalls = 0
         ELSE /\ driftResult.value = performLocalDriftDetection(existing, newDoc)
              /\ localCalls = 1
              /\ driftResult.value.hasChanges = (Len(driftResult.value.changes) > 0)
              /\ driftResult.value.recommendation \in
                   {"create-new", "update-existing", "manual-review"}

\* The request was rejected and the local analysis found changes.
C18_Witness ==
  /\ pc = "detectDrift"
  /\ remote.settled = "rejected"
  /\ driftResult.settled = "fulfilled"
  /\ localCalls = 1
  /\ driftResult.value.hasChanges
  /\ driftResult.value.recommendation = "manual-review"

(***************************************************************************)
(* Order and title change of the change list of analyzeDocuments           *)
(***************************************************************************)

Analyzed == pc = "analyzeDocuments"

HasPrefix(s, prefix) ==
  Len(s) >= Len(prefix) /\ SubSeq(s, 1, Len(prefix)) = prefix

AfterPrefix(s, prefix) == SubSeq(s, Len(prefix) + 1, Len(s))

\* The place of the first section titled title in sections.
FirstTitled(sections, title) ==
  CHOOSE i \in DOMAIN sections :
    /\ sections[i].title = title
    /\ \A j \in 1..(i - 1) : sections[j].title # title

\* The place of the first occurrence of field in fields.
FirstField(fields, field) ==
  CHOOSE i \in DOMAIN fields :
    fields[i] = field /\ \A j \in 1..(i - 1) : fields[j] # field

\* The step of the analysis a change comes from (title 1, description 2,
\* purpose 3, deletions 4, additions 5, modifications 6, metadata 7) and its
\* place within that step.
RankOf(change) ==
  IF change.section = K_title THEN <<1, 0>>
  ELSE IF change.section = K_description THEN <<2, 0>>
  ELSE IF change.section = K_purpose THEN <<3, 0>>
  ELSE IF HasPrefix(change.section, P_sections) THEN
    LET title == AfterPrefix(change.section, P_sections)
    IN IF change.type = "deletion"
         THEN <<4, FirstTitled(existing.enrichedContent.sections, title)>>
       ELSE IF change.type = "addition"
         THEN <<5, FirstTitled(newDoc.enrichedContent.sections, title)>>
       ELSE <<6, FirstTitled(newDoc.enrichedContent.sections, title)>>
  ELSE <<7, FirstField(IF Has(options, "focusAreas")
                         THEN options.focusAreas ELSE DefaultFieldsToCheck,
                       AfterPrefix(change.section, P_metadata))>>

RankLess(r1, r2) == r1[1] < r2[1] \/ (r1[1] = r2[1] /\ r1[2] < r2[2])

\* C19: in the change list the title change comes first, then description,
\* purpose, the deletions in the order of the existing sections, the additions
\* and then the modifications in the order of the incoming sections, and the
\* metadata changes in the order of the fields; this holds with and without
\* the filter of low changes.
C19_ChangeOrder ==
  Analyzed =>
    \A i \in 1..(Len(analysis.changes) - 1) :
      RankLess(RankOf(analysis.changes[i]), RankOf(analysis.changes[i + 1]))

\* A list with a title, a description, a purpose, an added section, a
\* modified section and a metadata change.
C19_Witness ==
  /\ Analyzed
  /\ [i \in DOMAIN analysis.changes |-> RankOf(analysis.changes[i])[1]]
       = <<1, 2, 3, 5, 6, 7>>

\* Two deleted sections, in the order of the existing list, before an added
\* one.
C19_DeletionsWitness ==
  /\ Analyzed
  /\ [i \in DOMAIN analysis.changes |-> RankOf(analysis.changes[i])]
       = <<<<4, 1>>, <<4, 2>>, <<5, 1>>>>

\* C20: unequal titles give exactly one change of section 'title', a
\* modification from the old to the new title, high when the similarity of the
\* titles is below 0.5 and medium otherwise: never low and never dropped,
\* whatever ignoreMinorChanges is.
C20_TitleChange ==
  (Analyzed /\ existing.enrichedContent.title # newDoc.enrichedContent.title) =>
    LET titled == SelectSeq(analysis.changes, LAMBDA c : c.section = K_title)
        titleSimilarity ==
          calculateStringSimilarity(existing.enrichedContent.title,
                                    newDoc.enrichedContent.title)
    IN /\ Len(titled) = 1
       /\ analysis.changes[1] = titled[1]
       /\ titled[1].type = "modification"
       /\ titled[1].oldValue = existing.enrichedContent.title
       /\ titled[1].newValue = newDoc.enrichedContent.title
       /\ titled[1].significance =
            IF titleSimilarity.num * 2 < titleSimilarity.den THEN "high" ELSE "medium"

\* Titles that differ in letter case only, analysed with ignoreMinorChanges.
C20_Witness ==
  /\ Analyzed
  /\ existing.enrichedContent.title = T_AuthService
  /\ newDoc.enrichedContent.title = T_authservice
  /\ Has(options, "ignoreMinorChanges") /\ options.ignoreMinorChanges
  /\ Len(analysis.changes) >= 1
  /\ analysis.changes[1].section = K_title
  /\ analysis.changes[1].significance = "medium"

(***************************************************************************)
(* Significance bands, shape of the changes, metadata fields and filter    *)
(***************************************************************************)

\* The changes of the texts that go through the shared rule: description,
\* purpose and modified sections.
IsTextChange(change) ==
  \/ change.section = K_description
  \/ change.section = K_purpose
  \/ HasPrefix(change.section, P_sections) /\ change.type = "modification"

\* The similarity of the two values of a modification, from the token sets.
ValueSimilarity(change) ==
  calculateStringSimilarity(change.oldValue, change.newValue)

\* The band of a similarity n / d: high below 1/2, medium from 1/2 and below
\* 4/5, low from 4/5.
BandOf(x) ==
  IF 2 * x.num < x.den THEN "high"
  ELSE IF 5 * x.num < 4 * x.den THEN "medium"
  ELSE "low"

\* C21: a modification of description, purpose or a section has unequal
\* values and its significance is high below similarity 0.5, medium in
\* [0.5, 0.8) and low from 0.8; 0.5 itself is medium and 0.8 itself is low.
C21_SignificanceBands ==
  Analyzed =>
    \A i \in DOMAIN analysis.changes :
      IsTextChange(analysis.changes[i]) =>
        /\ analysis.changes[i].oldValue # analysis.changes[i].newValue
        /\ analysis.changes[i].significance = BandOf(ValueSimilarity(analysis.changes[i]))

\* A description at similarity exactly 1/2 (medium), a purpose at exactly 4/5
\* (low), and section modifications at 1/2 and at 4/5.
C21_Witness ==
  /\ Analyzed
  /\ Len(analysis.changes) = 5
  /\ [i \in 1..4 |-> analysis.changes[i].section]
       = <<K_description, K_purpose, P_sections \o T_Overview, P_sections \o T_API>>
  /\ [i \in 1..4 |-> ValueSimilarity(analysis.changes[i])]
       = <<Frac(1, 2), Frac(4, 5), Frac(1, 2), Frac(4, 5)>>
  /\ [i \in 1..4 |-> analysis.changes[i].significance]
       = <<"medium", "low", "medium", "low">>

\* The titles of a section list.
TitleSet(sections) == {sections[i].title : i \in DOMAIN sections}

\* The changes of the analysis on the section titled title.
ChangesOn(title) ==
  SelectSeq(analysis.changes, LAMBDA c : c.section = P_sections \o title)

\* C22: each title present in existing only gives exactly one deletion, medium,
\* with an oldValue and no newValue; each title present in incoming only gives
\* exactly one addition, medium, with a newValue and no oldValue; every
\* modification has both an oldValue and a newValue.
C22_ChangeShape ==
  Analyzed =>
    LET old == TitleSet(existing.enrichedContent.sections)
        new == TitleSet(newDoc.enrichedContent.sections)
    IN /\ \A t \in old \ new :
            /\ Len(ChangesOn(t)) = 1
            /\ ChangesOn(t)[1].type = "deletion"
            /\ ChangesOn(t)[1].significance = "medium"
            /\ Has(ChangesOn(t)[1], "oldValue")
            /\ ~Has(ChangesOn(t)[1], "newValue")
       /\ \A t \in new \ old :
            /\ Len(ChangesOn(t)) = 1
            /\ ChangesOn(t)[1].type = "addition"
            /\ ChangesOn(t)[1].significance = "medium"
            /\ Has(ChangesOn(t)[1], "newValue")
            /\ ~Has(ChangesOn(t)[1], "oldValue")
       /\ \A i \in DOMAIN analysis.changes :
            LET c == analysis.changes[i]
            IN /\ c.type \in {"deletion", "addition", "modification"}
               /\ c.type = "modification" =>
                    Has(c, "oldValue") /\ Has(c, "newValue")
               /\ c.type = "deletion" =>
                    /\ HasPrefix(c.section, P_sections)
                    /\ AfterPrefix(c.section, P_sections) \in old \ new
               /\ c.type = "addition" =>
                    /\ HasPrefix(c.section, P_sections)
                    /\ AfterPrefix(c.section, P_sections) \in new \ old

\* A deletion, an addition and a modification of sections in one analysis.
C22_Witness ==
  /\ Analyzed
  /\ Len(analysis.changes) = 3
  /\ [i \in 1..3 |-> analysis.changes[i].type]
       = <<"deletion", "addition", "modification">>
  /\ [i \in 1..3 |-> DOMAIN analysis.changes[i]]
       = <<{"section", "type", "oldValue", "significance"},
           {"section", "type", "newValue", "significance"},
           {"section", "type", "oldValue", "newValue", "significance"}>>

\* ignoreMinorChanges of the analysed options, false when absent.
IgnoringMinor == Has(options, "ignoreMinorChanges") /\ options.ignoreMinorChanges

\* The static significance of a metadata field.
FieldSignificance(field) ==
  IF field \in {K_serviceName, K_version} THEN "high"
  ELSE IF field \in {K_dependencies, K_category, K_businessUnit} THEN "medium"
  ELSE "low"

\* C23: the metadata changes of an analysis are, in order, one modification
\* of 'metadata.<field>' for each field of focusAreas (when given, otherwise
\* of serviceName, version, dependencies, tags, category, businessUnit) whose
\* two values differ, lists compared with their order; the significance is
\* high, medium or low by the field alone.  (The final filter of low changes
\* is accounted for.)
C23_MetadataFields ==
  Analyzed =>
    LET fields ==
          IF Has(options, "focusAreas") THEN options.focusAreas
          ELSE <<K_serviceName, K_version, K_dependencies, K_tags, K_category,
                 K_businessUnit>>
        differing ==
          SelectSeq(fields, LAMBDA f :
            /\ Lookup(existing.metadata, f) # Lookup(newDoc.metadata, f)
            /\ ~(IgnoringMinor /\ FieldSignificance(f) = "low"))
        emitted ==
          SelectSeq(analysis.changes, LAMBDA c : HasPrefix(c.section, P_metadata))
    IN /\ Len(emitted) = Len(differing)
       /\ \A i \in DOMAIN emitted :
            /\ emitted[i].section = P_metadata \o differing[i]
            /\ emitted[i].type = "modification"
            /\ emitted[i].significance = FieldSignificance(differing[i])

\* The same dependencies in another order: one medium change.
C23_Witness ==
  /\ Analyzed
  /\ existing.metadata = M_base /\ newDoc.metadata = M_reordered
  /\ ~Has(options, "focusAreas")
  /\ Len(analysis.changes) = 1
  /\ analysis.changes[1].section = P_metadata \o K_dependencies
  /\ analysis.changes[1].significance = "medium"
  /\ analysis.changes[1].oldValue = Values.db \o <<",", " ">> \o Values.mq
  /\ analysis.changes[1].newValue = Values.mq \o <<",", " ">> \o Values.db

\* focusAreas given: tags and author are compared, both low, and the version
\* is not.
C23_FocusWitness ==
  /\ Analyzed
  /\ Has(options, "focusAreas") /\ ~IgnoringMinor
  /\ Lookup(existing.metadata, K_version) # Lookup(newDoc.metadata, K_version)
  /\ Len(analysis.changes) = 2
  /\ [i \in 1..2 |-> analysis.changes[i].section]
       = <<P_metadata \o K_tags, P_metadata \o K_author>>
  /\ [i \in 1..2 |-> analysis.changes[i].significance] = <<"low", "low">>

\* The confidence of a list, in hundredths, from its counts.
ConfidenceOf(list) ==
  LET n == Len(list)
      h == Cardinality({i \in DOMAIN list : list[i].significance = "high"})
      m == Cardinality({i \in DOMAIN list : list[i].significance = "medium"})
      raw == 80 - (IF 5 * n > 40 THEN 40 ELSE 5 * n) - 15 * h - 8 * m
  IN IF n = 0 THEN 100 ELSE IF raw < 10 THEN 10 ELSE raw

\* The recommendation of a list and a confidence, rule by rule.
RecommendationOf(list, conf) ==
  LET n == Len(list)
      h == Cardinality({i \in DOMAIN list : list[i].significance = "high"})
  IN CASE n = 0 -> "create-new"
       [] n > 0 /\ (h > 2 \/ conf < 50) -> "manual-review"
       [] n > 0 /\ ~(h > 2 \/ conf < 50) /\ n <= 3 /\ h <= 1 -> "update-existing"
       [] n > 0 /\ ~(h > 2 \/ conf < 50) /\ ~(n <= 3 /\ h <= 1) /\ n > 5 -> "create-new"
       [] OTHER -> "merge-required"

\* The titles both documents have with different contents (the contents the
\* Maps hold: those of the last section of that title).
LastTitled(sections, title) ==
  sections[CHOOSE i \in DOMAIN sections :
             /\ sections[i].title = title
             /\ \A j \in (i + 1)..Len(sections) : sections[j].title # title]

\* C24: with ignoreMinorChanges the list has no low change; hasChanges,
\* confidence and recommendation are those of the returned list; without it
\* every differing description, purpose, common section and compared metadata
\* field is in the list, the low ones included, and counts.
C24_FilteredList ==
  Analyzed =>
    /\ IgnoringMinor =>
         \A i \in DOMAIN analysis.changes : analysis.changes[i].significance # "low"
    /\ analysis.hasChanges = (Len(analysis.changes) > 0)
    /\ analysis.confidence = ConfidenceOf(analysis.changes)
    /\ analysis.recommendation = RecommendationOf(analysis.changes, analysis.confidence)
    /\ ~IgnoringMinor =>
         /\ existing.enrichedContent.description # newDoc.enrichedContent.description
              => \E i \in DOMAIN analysis.changes :
                   analysis.changes[i].section = K_description
         /\ existing.enrichedContent.purpose # newDoc.enrichedContent.purpose
              => \E i \in DOMAIN analysis.changes :
                   analysis.changes[i].section = K_purpose
         /\ \A t \in TitleSet(existing.enrichedContent.sections)
                       \cap TitleSet(newDoc.enrichedContent.sections) :
              LastTitled(existing.enrichedContent.sections, t).content
                  # LastTitled(newDoc.enrichedContent.sections, t).content
                => Len(ChangesOn(t)) = 1

\* Documents that differ in low ways only (a description at similarity 5/6,
\* below the 0.95 skip, and the tags), analysed with ignoreMinorChanges.
C24_Witness ==
  /\ Analyzed /\ IgnoringMinor
  /\ calculateStringSimilarity(existing.enrichedContent.description,
                               newDoc.enrichedContent.description) = Frac(5, 6)
  /\ Lookup(existing.metadata, K_tags) # Lookup(newDoc.metadata, K_tags)
  /\ ~analysis.hasChanges
  /\ analysis.changes = <<>>
  /\ analysis.confidence = 100
  /\ analysis.recommendation = "create-new"

\* Without the filter: five low changes, merge-required at confidence 0.55.
C24_KeptWitness ==
  /\ Analyzed /\ ~IgnoringMinor
  /\ Len(analysis.changes) = 5
  /\ \A i \in DOMAIN analysis.changes : analysis.changes[i].significance = "low"
  /\ analysis.confidence = 55
  /\ analysis.recommendation = "merge-required"

\* The options without threshold, and with threshold set to t.
WithoutThreshold(opts) == [k \in DOMAIN opts \ {"threshold"} |-> opts[k]]

WithThreshold(opts, t) == WithoutThreshold(opts) @@ [threshold |-> t]

\* C29: the analysis does not depend on options.threshold: the same documents
\* with the same other options and threshold absent, 0.5 or 0.9 give the same
\* hasChanges, confidence, changes and recommendation.
C29_ThresholdUnused ==
  Analyzed =>
    /\ analysis = analyzeDocuments(existing, newDoc, WithThreshold(options, 50))
    /\ Has(options, "threshold") =>
         analysis = analyzeDocuments(existing, newDoc, WithoutThreshold(options))

\* An analysis with threshold 0.9 of descriptions whose similarity, 5/6, lies
\* between the default threshold and the given one.
C29_Witness ==
  /\ Analyzed
  /\ Has(options, "threshold") /\ options.threshold = 90
  /\ calculateStringSimilarity(existing.enrichedContent.description,
                               newDoc.enrichedContent.description) = Frac(5, 6)
  /\ analysis.hasChanges
  /\ analysis.changes[1].section = K_description
  /\ analysis.changes[1].significance = "low"

\* C26: the analysis with ignoreMinorChanges is the analysis of the same
\* documents without it (other options the same), its low changes removed,
\* and hasChanges, confidence and recommendation taken from what is left; the
\* skip above similarity 0.95 removes nothing else.
C26_SkipIsFilter ==
  (Analyzed /\ IgnoringMinor) =>
    LET plain == analyzeDocuments(existing, newDoc,
                   [k \in DOMAIN options |->
                      IF k = "ignoreMinorChanges" THEN FALSE ELSE options[k]])
        kept == SelectSeq(plain.changes, LAMBDA c : c.significance # "low")
    IN /\ analysis.changes = kept
       /\ analysis.hasChanges = (Len(kept) > 0)
       /\ analysis.confidence = ConfidenceOf(kept)
       /\ analysis.recommendation = RecommendationOf(kept, ConfidenceOf(kept))

\* Descriptions and section contents that differ in whitespace only
\* (similarity 1, skipped), next to a purpose change that stays.
C26_Witness ==
  /\ Analyzed /\ IgnoringMinor
  /\ existing.enrichedContent.description # newDoc.enrichedContent.description
  /\ calculateStringSimilarity(existing.enrichedContent.description,
                               newDoc.enrichedContent.description) = Frac(1, 1)
  /\ Len(existing.enrichedContent.sections) = 2
  /\ Len(newDoc.enrichedContent.sections) = 2
  /\ existing.enrichedContent.sections[1].content = X_base
  /\ newDoc.enrichedContent.sections[1].content = X_spaced
  /\ Len(analysis.changes) = 2
  /\ analysis.changes[1].section = K_purpose
  /\ analysis.changes[2].section = P_sections \o T_API

(***************************************************************************)
(* Order of the outputs of compareSections                                 *)
(***************************************************************************)

\* The sections of list come in the order in which their titles first occur in
\* reference.
InOrderOf(list, reference) ==
  /\ \A i \in DOMAIN list : \E j \in DOMAIN reference : reference[j].title = list[i].title
  /\ \A i \in 1..(Len(list) - 1) :
       FirstTitled(reference, list[i].title) < FirstTitled(reference, list[i + 1].title)

\* What C25 says of the modified entries and of equal contents.
ModifiedAndUnchanged ==
  /\ \A i \in DOMAIN comparison.modified :
       LET entry == comparison.modified[i]
       IN /\ entry.existing = LastTitled(existing.enrichedContent.sections, entry.title)
          /\ entry.new = LastTitled(newDoc.enrichedContent.sections, entry.title)
          /\ entry.existing.content # entry.new.content
          /\ entry.similarity =
               calculateStringSimilarity(entry.existing.content, entry.new.content)
  /\ \A t \in TitleSet(existing.enrichedContent.sections)
                \cap TitleSet(newDoc.enrichedContent.sections) :
       LastTitled(existing.enrichedContent.sections, t).content
           = LastTitled(newDoc.enrichedContent.sections, t).content
         => \E i \in DOMAIN comparison.unchanged : comparison.unchanged[i].title = t

C25_RetypedWitness ==
  /\ pc = "compareSections"
  /\ Len(comparison.unchanged) = 1
  /\ comparison.unchanged[1].type = "examples"
  /\ existing.enrichedContent.sections = BaseSections

\* Where a section of the incoming document goes in the merge: 1 when existing
\* has its title with the same content, 2 when with another content, 3 when
\* existing has no such title.
MergeGroup(section) ==
  IF section.title \notin TitleSet(existing.enrichedContent.sections) THEN 3
  ELSE IF LastTitled(existing.enrichedContent.sections, section.title).content
            = section.content THEN 1
  ELSE 2

\* C27: the sections merged by 'merge-sections' are one section for each
\* distinct title of incoming, each of them incoming's last section of that
\* title, the unchanged ones first, then the modified, then the added; no
\* title that only existing has is among them.
C27_IncomingSectionsOnly ==
  (pc = "createMergePreview" /\ strategy \in {"merge-sections", "undefined"}) =>
    LET sections == merged.enrichedContent.sections
        incoming == newDoc.enrichedContent.sections
    IN /\ Len(sections) = Cardinality(TitleSet(incoming))
       /\ TitleSet(sections) = TitleSet(incoming)
       /\ \A i \in DOMAIN sections :
            sections[i] = LastTitled(incoming, sections[i].title)
       /\ \A i \in 1..(Len(sections) - 1) :
            MergeGroup(sections[i]) <= MergeGroup(sections[i + 1])
       /\ \A t \in TitleSet(existing.enrichedContent.sections) \ TitleSet(incoming) :
            t \notin TitleSet(sections)

\* Incoming repeats a title with two contents and existing has a section of
\* its own: the merge holds incoming's last section only.
C27_Witness ==
  /\ pc = "createMergePreview" /\ strategy = "merge-sections"
  /\ Titles(newDoc.enrichedContent.sections) = <<T_Overview, T_Overview>>
  /\ newDoc.enrichedContent.sections[1].content # newDoc.enrichedContent.sections[2].content
  /\ Titles(existing.enrichedContent.sections) = <<T_Overview, T_API>>
  /\ existing.enrichedContent.sections[1].content = newDoc.enrichedContent.sections[1].content
  /\ merged.enrichedContent.sections = <<newDoc.enrichedContent.sections[2]>>

(***************************************************************************)
(* The document store: processDocument and saveDocument                    *)
(***************************************************************************)

\* The calls of processDocument in one behaviour.
MaxCalls == 2

Null == [kind |-> "null"]

\* The features of the configuration.
Features(drift, autoSave) ==
  [enableDriftDetection |-> drift, enableAutoSave |-> autoSave,
   enablePreview |-> TRUE, enableMetadataValidation |-> TRUE]

initialState ==
  [currentDocument |-> Null,
   enrichedDocument |-> Null,
   processingStatus |-> "idle",
   existingDocuments |-> <<>>,
   driftAnalysis |-> Null,
   resolutionRequired |-> FALSE,
   activeStep |-> "input",
   errors |-> <<>>,
   isLoading |-> FALSE,
   config |-> [features |-> Features(TRUE, FALSE)]]

\* set(partial) of the store.
SetState(state, partial) == Spread(state, partial)

\* The input of processDocument.
StoreInput == [content |-> X_base, type |-> "service", metadata |-> <<>>]

ThreeSections(content) ==
  <<Section(T_Overview, content, "overview"), Section(T_API, content, "inputs"),
    Section(T_New, content, "examples")>>

\* The document the search finds, as the EnrichedDocument the store casts it
\* to, and as the ExistingDocument the search is typed to return (it has no
\* enrichedContent).
FoundEnriched ==
  StoredDoc(Content(T_AuthService, X_base, X_base, X_base, ThreeSections(X_base)), M_base)

FoundExisting ==
  [id |-> Str(Values.db), title |-> T_AuthService,
   content |-> Content(T_AuthService, X_base, X_base, X_base, ThreeSections(X_base)),
   metadata |-> M_base, similarity |-> 90]

\* What enrichDocument answers with: a document equal to the found one in all
\* that is compared, one with another title, one with another title and a far
\* description, and one that differs in six low ways.
StoreEnriched ==
  {FreshDoc(Content(T_AuthService, X_base, X_base, X_base, ThreeSections(X_base)), M_base),
   FreshDoc(Content(T_AuthenticationService, X_base, X_base, X_base,
                    ThreeSections(X_base)), M_base),
   FreshDoc(Content(T_AuthenticationService, X_base, X_far, X_far,
                    ThreeSections(X_far)), M_other),
   FreshDoc(Content(T_AuthService, X_base, X_near, X_near, ThreeSections(X_near)), M_tags)}

StoreSearchResults == {<<>>, <<FoundEnriched>>, <<FoundExisting>>}

\* The catch block of processDocument: errors is that of the state read when
\* the call began.
CatchProcessing(state, message) ==
  SetState(state, [processingStatus |-> "error",
                   isLoading |-> FALSE,
                   errors |-> Append(frame.state.errors, message)])

\* processDocument from "Auto-save if enabled" on: saveDocument up to its
\* await, or the final set.  The result is the store and where the call is.
AutoSaveOrComplete(state) ==
  IF frame.state.config.features.enableAutoSave
    THEN IF state.enrichedDocument = Null
           THEN [store |-> CatchProcessing(state, "No document to save"),
                 pc |-> "settled"]
           ELSE [store |-> SetState(state, [processingStatus |-> "saving"]),
                 pc |-> "save"]
    ELSE [store |-> SetState(state, [processingStatus |-> "idle",
                                     activeStep |-> "complete",
                                     isLoading |-> FALSE]),
          pc |-> "settled"]

StoreInit ==
  /\ pc = "ready"
  /\ store = initialState
  /\ frame = Null
  /\ calls = 0
  /\ str1 = None /\ str2 = None /\ similarity = None
  /\ remote = None /\ driftResult = None /\ localCalls = 0
  /\ existing = None /\ newDoc = None /\ options = None /\ analysis = None
  /\ comparison = None /\ strategy = None /\ now = None /\ merged = None
  /\ recompared = None
  /\ changes = None /\ confidence = None /\ confidenceArg = None
  /\ recommendation = None

StoreRest ==
  /\ UNCHANGED <<str1, str2, similarity, remote, driftResult, localCalls>>
  /\ UNCHANGED docVars
  /\ UNCHANGED listVars

\* No call of processDocument is in flight.
StoreQuiet == pc \in {"ready", "settled"}

\* initialize(config) with the features of config.
Initialize ==
  \E drift \in BOOLEAN, autoSave \in BOOLEAN :
    /\ pc = "ready" /\ calls = 0
    /\ store' = SetState(store, [config |->
                   Spread(store.config, [features |-> Features(drift, autoSave)])])
    /\ UNCHANGED <<pc, frame, calls>>
    /\ StoreRest

\* processDocument(input) up to the await of enrichDocument.
ProcessDocument ==
  /\ StoreQuiet
  /\ calls < MaxCalls
  /\ calls' = calls + 1
  /\ frame' = [state |-> store, driftAnalysis |-> Null]
  /\ store' = SetState(store, [currentDocument |-> StoreInput,
                               processingStatus |-> "enriching",
                               activeStep |-> "enriching",
                               isLoading |-> TRUE,
                               errors |-> <<>>])
  /\ pc' = "enrichDocument"
  /\ StoreRest

\* enrichDocument rejects.
EnrichDocumentRejects ==
  /\ pc = "enrichDocument"
  /\ store' = CatchProcessing(store, "enrichment failed")
  /\ pc' = "settled"
  /\ UNCHANGED <<frame, calls>>
  /\ StoreRest

\* enrichDocument fulfils; processDocument runs to the await of
\* searchByContent, or, drift detection disabled, on to the auto-save.
EnrichDocumentFulfils ==
  \E enrichedDoc \in StoreEnriched :
    LET enriched == SetState(store, [enrichedDocument |-> enrichedDoc,
                                     processingStatus |-> "searching",
                                     activeStep |-> "preview"])
    IN /\ pc = "enrichDocument"
       /\ IF frame.state.config.features.enableDriftDetection
            THEN /\ store' = SetState(enriched, [processingStatus |-> "searching"])
                 /\ pc' = "searchByContent"
            ELSE /\ store' = AutoSaveOrComplete(enriched).store
                 /\ pc' = AutoSaveOrComplete(enriched).pc
       /\ UNCHANGED <<frame, calls>>
       /\ StoreRest

\* searchByContent rejects.
SearchRejects ==
  /\ pc = "searchByContent"
  /\ store' = CatchProcessing(store, "search failed")
  /\ pc' = "settled"
  /\ UNCHANGED <<frame, calls>>
  /\ StoreRest

\* searchByContent fulfils; with a document found, analyzeDocuments runs (and
\* throws on a document without enrichedContent) and processDocument stops
\* at the await of its result; with none it goes on to the auto-save.
SearchFulfils ==
  \E existingDocs \in StoreSearchResults :
    LET found == SetState(store, [existingDocuments |-> existingDocs])
    IN /\ pc = "searchByContent"
       /\ IF Len(existingDocs) > 0
            THEN IF Has(existingDocs[1], "enrichedContent")
                   THEN /\ store' = SetState(found, [processingStatus |-> "analyzing-drift"])
                        /\ frame' = [frame EXCEPT !.driftAnalysis =
                                       analyzeDocuments(existingDocs[1],
                                                        store.enrichedDocument, <<>>)]
                        /\ pc' = "analyzeDocuments"
                   ELSE /\ store' = CatchProcessing(
                                      SetState(found, [processingStatus |-> "analyzing-drift"]),
                                      "Cannot read properties of undefined")
                        /\ pc' = "settled"
                        /\ UNCHANGED frame
            ELSE /\ store' = AutoSaveOrComplete(found).store
                 /\ pc' = AutoSaveOrComplete(found).pc
                 /\ UNCHANGED frame
       /\ UNCHANGED calls
       /\ StoreRest

\* processDocument after the await of the analysis: drift resolution, or on
\* to the auto-save.
AnalysisResumes ==
  LET analysed == SetState(store, [driftAnalysis |-> frame.driftAnalysis])
  IN /\ pc = "analyzeDocuments"
     /\ IF frame.driftAnalysis.hasChanges
           /\ frame.driftAnalysis.recommendation # "create-new"
          THEN /\ store' = SetState(analysed, [resolutionRequired |-> TRUE,
                                               activeStep |-> "drift-resolution",
                                               processingStatus |-> "idle",
                                               isLoading |-> FALSE])
               /\ pc' = "settled"
          ELSE /\ store' = AutoSaveOrComplete(analysed).store
               /\ pc' = AutoSaveOrComplete(analysed).pc
     /\ UNCHANGED <<frame, calls>>
     /\ StoreRest

\* documentService.save rejects: saveDocument rethrows, processDocument
\* catches.
SaveRejects ==
  /\ pc = "save"
  /\ store' = CatchProcessing(store, "save failed")
  /\ pc' = "settled"
  /\ UNCHANGED <<frame, calls>>
  /\ StoreRest

\* documentService.save fulfils: saveDocument sets its last state and
\* processDocument returns.
SaveFulfils ==
  /\ pc = "save"
  /\ store' = SetState(store, [processingStatus |-> "idle",
                               activeStep |-> "complete",
                               enrichedDocument |->
                                 Spread(store.enrichedDocument, [id |-> Str(Values.mq)])])
  /\ pc' = "settled"
  /\ UNCHANGED <<frame, calls>>
  /\ StoreRest

\* skipDriftCheck() between two calls.
SkipDriftCheck ==
  /\ pc = "settled"
  /\ store' = SetState(store, [resolutionRequired |-> FALSE,
                               activeStep |-> "complete",
                               processingStatus |-> "idle"])
  /\ pc' = "ready"
  /\ UNCHANGED <<frame, calls>>
  /\ StoreRest

\* reset() between two calls: the configuration is kept.
Reset ==
  /\ pc = "settled"
  /\ store' = SetState(initialState, [config |-> store.config])
  /\ pc' = "ready"
  /\ UNCHANGED <<frame, calls>>
  /\ StoreRest

StoreNext ==
  \/ Initialize
  \/ ProcessDocument
  \/ EnrichDocumentRejects
  \/ EnrichDocumentFulfils
  \/ SearchRejects
  \/ SearchFulfils
  \/ AnalysisResumes
  \/ SaveRejects
  \/ SaveFulfils
  \/ SkipDriftCheck
  \/ Reset

SpecStore == StoreInit /\ [][StoreNext]_vars

----------------------------------------------------------------------------
\* C30: when a call of processDocument has settled, isLoading is false and
\* processingStatus is 'idle' or 'error', and resolutionRequired is true only
\* if the call's drift analysis has hasChanges and a recommendation other
\* than 'create-new'.
C30_SettledState ==
  pc = "settled" =>
    /\ store.isLoading = FALSE
    /\ store.processingStatus \in {"idle", "error"}
    /\ store.resolutionRequired =>
         /\ frame.driftAnalysis # Null
         /\ frame.driftAnalysis.hasChanges
         /\ frame.driftAnalysis.recommendation # "create-new"

(***************************************************************************)
(* Confidence and recommendation over change lists                         *)
(***************************************************************************)

\* The longest change list built.
MaxChanges == 6

T_old == <<"o", "l", "d">>
T_new == <<"n", "e", "w">>

\* One change of each significance and type.
ChangePool ==
  {[section |-> K_description, type |-> "modification",
    oldValue |-> T_old, newValue |-> T_new, significance |-> sig] :
      sig \in {"low", "medium", "high"}}
  \cup {[section |-> P_sections \o T_new, type |-> "addition",
         newValue |-> T_new, significance |-> "medium"]}

\* Confidences handed to generateRecommendation: around the 0.5 test.
ConfidencePool == {10, 47, 49, 50, 51, 100}

ListInit ==
  /\ pc = "calculateConfidence"
  /\ changes = <<>>
  /\ confidence = calculateConfidence(<<>>)
  /\ confidenceArg = calculateConfidence(<<>>)
  /\ recommendation = generateRecommendation(<<>>, calculateConfidence(<<>>))
  /\ existing = None /\ newDoc = None /\ options = None /\ analysis = None
  /\ comparison = None /\ strategy = None /\ now = None /\ merged = None
  /\ recompared = None
  /\ AuxIdle

\* Lines 83-85 of analyzeDocuments on a list one change longer.
PushChange ==
  \E c \in ChangePool :
    /\ Len(changes) < MaxChanges
    /\ changes' = Append(changes, c)
    /\ confidence' = calculateConfidence(changes')
    /\ confidenceArg' = confidence'
    /\ recommendation' = generateRecommendation(changes', confidenceArg')
    /\ pc' = "calculateConfidence"
    /\ UNCHANGED docVars
    /\ UNCHANGED auxVars

\* generateRecommendation with a confidence of the caller's choice.
Recommend ==
  \E x \in ConfidencePool :
    /\ confidenceArg' = x
    /\ recommendation' = generateRecommendation(changes, x)
    /\ pc' = "generateRecommendation"
    /\ UNCHANGED <<changes, confidence>>
    /\ UNCHANGED docVars
    /\ UNCHANGED auxVars

ListNext == PushChange \/ Recommend

SpecList == ListInit /\ [][ListNext]_vars

----------------------------------------------------------------------------
\* Counts taken from the list itself.
NumChanges == Len(changes)
NumHigh == Cardinality({i \in DOMAIN changes : changes[i].significance = "high"})
NumMedium == Cardinality({i \in DOMAIN changes : changes[i].significance = "medium"})

\* C2: the recommendation follows the precedence: no changes -> create-new;
\* high > 2 or confidence < 0.5 -> manual-review; total <= 3 and high <= 1 ->
\* update-existing; total > 5 -> create-new; otherwise merge-required.
C2_RecommendationPrecedence ==
  recommendation =
    IF NumChanges = 0 THEN "create-new"
    ELSE IF NumHigh > 2 \/ confidenceArg < 50 THEN "manual-review"
    ELSE IF NumChanges <= 3 /\ NumHigh <= 1 THEN "update-existing"
    ELSE IF NumChanges > 5 THEN "create-new"
    ELSE "merge-required"

\* One high and one medium change, confidence 0.47: manual-review although
\* total <= 3 and high <= 1.
C2_Witness ==
  /\ NumChanges = 2 /\ NumHigh = 1 /\ NumMedium = 1
  /\ confidence = 47 /\ confidenceArg = 47
  /\ recommendation = "manual-review"

C4_ConfidenceMonotone ==
  /\ [](confidence \in 10..100)
  /\ [][confidence' <= confidence]_vars

\* A low change was appended to a list that already had changes.
C4_Witness ==
  /\ NumChanges >= 2
  /\ changes[NumChanges].significance = "low"
  /\ confidence < 100

\* The recommendation is that of lines 83-85: the confidence handed to
\* generateRecommendation is calculateConfidence of the same list.
OwnConfidence == pc = "calculateConfidence"

C28_MergeWitness ==
  /\ OwnConfidence
  /\ NumChanges = 4 /\ NumHigh = 0 /\ NumMedium = 1
  /\ confidence = 52
  /\ recommendation = "merge-required"

====
